---- MODULE Spec2Model ----
(***************************************************************************)
(* A model of the radix-engine call-frame machine (Process), its resource  *)
(* containers, buckets, vaults, proofs, worktop and auth zone, and of the  *)
(* Track that buffers substate writes of one transaction.                  *)
(*                                                                         *)
(* One transaction is executed: the root frame (depth 0) runs transaction  *)
(* instructions, every deeper frame runs guest code, which is arbitrary:   *)
(* in a deeper frame any host call may happen with any input, and the      *)
(* guest may return any value.  An operation that returns an error ends    *)
(* the transaction (pc = "failed"); a failed Rust assertion ends it with   *)
(* pc = "panicked".                                                        *)
(***************************************************************************)
EXTENDS Integers, Sequences, FiniteSets, TLC

(***************************************************************************)
(* Bounds of the model.                                                    *)
(***************************************************************************)
\* deepest call depth (the root frame has depth 0)
MaxDepth == 1
\* ids the root frame's allocator hands out
MaxTransactionIds == 1
\* ids the Track's per-transaction counter hands out
MaxApplicationIds == 2
\* vault ids the Track hands out in one transaction
MaxVaultIds == 1
\* lazy map ids the Track hands out in one transaction
MaxLazyMapIds == 1
MaxLazyMaps == 2
\* largest amount a take asks for
MaxTake == 2
\* amount held by the persisted vault at the start of the transaction
VaultSupply == 2
\* largest amount a single mint creates
MaxMint == 1
\* non-fungible ids of the non-fungible resource
MaxNonFungibleIds == 3
\* the metering limit of an invocation
TbdLimit == 3
\* largest single charge
MaxCharge == 4
\* longest sequence of charges
MaxCharges == 3
\* most clones made of one proof
MaxClones == 2
\* the frames that may be on the stack when a nested call is made
MaxNesting == 3
\* the divisibility of the resource whose amounts have a granularity
CoarseDivisibility == 17
\* amount held by the persisted vault of that resource, counted in units of
\* its granularity
CoarseSupply == 8
\* the largest amount of a single mint (it stands for 100_000_000_000 whole
\* units, which is 10^29 raw)
MaxMintAmount == 100
\* substate writes of one transaction
MaxWrites == 4
\* ids the root frame's allocator hands out in a transaction that ends with
\* a call with all resources
MaxRootIds == 3
\* largest amount a Vault of model/vault.rs holds
MaxVaultAmount == 3
\* guest memory, scaled: a byte has ByteBase values and a word is WordBytes
\* bytes; a page is what two bytes address and a memory has at most as many
\* pages as the other two bytes of a word count, so that the largest memory
\* has one byte more than the largest word, as the 65536 pages of 64 KiB of
\* a 32-bit guest have
ByteBase == 2
WordBytes == 4
PageSize == ByteBase ^ 2
MaxPages == ByteBase ^ (WordBytes - 2)
\* the cells of the memory that the guest writes
MaxWritten == 7

VARIABLES
    frames,     \* the stack of Process records, frames[1] is the root frame
    track,      \* the Track: buffered substates and per-transaction counters
    store,      \* the backing substate store
    pc,         \* "running", "failed", "panicked", "finalized", "committed"
    err,        \* the error the transaction ended with ("Ok" while running)
    op,         \* the operation that ended the transaction ("none" while it runs)
    id_gen,     \* the SubstateIdGenerator of the transaction
    writes,     \* the substate writes applied so far: address and physical id
    vault,      \* a Vault of model/vault.rs: a bucket and the authority over it
    vm          \* the guest instance: its linear memory and the pointer it returned

vars == <<frames, track, store, pc, err, op, id_gen, writes, vault, vm>>

(***************************************************************************)
(* Finite maps (HashMap / BTreeMap).                                       *)
(***************************************************************************)
EmptyMap == [x \in {} |-> 0]

Remove(f, k) == [x \in DOMAIN f \ {k} |-> f[x]]

Insert(f, k, v) == [x \in DOMAIN f \cup {k} |-> IF x = k THEN v ELSE f[x]]

Extend(f, g) == [x \in DOMAIN f \cup DOMAIN g |-> IF x \in DOMAIN g THEN g[x] ELSE f[x]]

Range(seq) == {seq[i] : i \in DOMAIN seq}

MaxOf(S) == IF S = {} THEN 0 ELSE CHOOSE m \in S : \A x \in S : x <= m

RECURSIVE Pow10(_)
Pow10(n) == IF n = 0 THEN 1 ELSE 10 * Pow10(n - 1)

\* sequences without repetition of elements of S, of length at most 1
ArgSeqs(S) == {<<>>} \cup {<<x>> : x \in S}

(***************************************************************************)
(* Addresses and identifiers.                                              *)
(***************************************************************************)
Resources == {"R1", "R2"}
NonFungibleResources == {"N1"}
NonFungibleIds == 1..MaxNonFungibleIds
\* the fungible resource whose divisibility is CoarseDivisibility
CoarseResources == {"D1"}

\* the component persisted before the transaction, and the one a
\* transaction may create
AccountAddress == "Account"
NewComponentAddress == "NewComponent"
NewResourceAddress == "NewResource"

\* the divisibility of every resource of the model: amounts are raw Decimal
\* values (multiples of 10^-18)
Divisibility == 18

\* ResourceManager::resource_type: the divisibility of a fungible resource
divisibility_of(resource_address) ==
    IF resource_address \in CoarseResources THEN CoarseDivisibility ELSE Divisibility

\* the smallest positive amount of a resource of that divisibility
Granularity(divisibility) == Pow10(18 - divisibility)

TransactionIds == {<<"Transaction", n>> : n \in 1..MaxTransactionIds}
ApplicationIds == {<<"Application", n>> : n \in 1..MaxApplicationIds}
Ids == TransactionIds \cup ApplicationIds

PersistedVault == <<"Vault", 0>>
NewVaultIds == {<<"Vault", n>> : n \in 1..MaxVaultIds}
VaultIds == {PersistedVault} \cup NewVaultIds
LazyMapIds == {<<"LazyMap", n>> : n \in 1..MaxLazyMapIds}
AllLazyMapIds == {<<"LazyMap", n>> : n \in 1..MaxLazyMaps}

(***************************************************************************)
(* ResourceContainer: Fungible {resource_def_id, divisibility,             *)
(* locked_amounts, liquid_amount} or NonFungible {resource_def_id,         *)
(* locked_ids, liquid_ids}.  A fungible amount is a raw Decimal value, a   *)
(* non-fungible quantity is a whole number of units.                       *)
(***************************************************************************)
new_fungible(resource_def_id, divisibility, amount) ==
    [resource_def_id |-> resource_def_id,
     divisibility |-> divisibility,
     locked_amounts |-> EmptyMap,
     liquid_amount |-> amount]

new_non_fungible(resource_def_id, ids) ==
    [resource_def_id |-> resource_def_id,
     locked_ids |-> EmptyMap,
     liquid_ids |-> ids]

resource_type(c) == IF "liquid_ids" \in DOMAIN c THEN "NonFungible" ELSE "Fungible"

new_empty(resource_def_id) ==
    IF resource_def_id \in NonFungibleResources
    THEN new_non_fungible(resource_def_id, {})
    ELSE new_fungible(resource_def_id, divisibility_of(resource_def_id), 0)

\* Amount::Fungible {amount} or Amount::NonFungible {ids}
liquid_amount(c) ==
    IF resource_type(c) = "NonFungible" THEN c.liquid_ids ELSE c.liquid_amount

is_locked(c) ==
    IF resource_type(c) = "NonFungible" THEN DOMAIN c.locked_ids # {}
    ELSE DOMAIN c.locked_amounts # {}

max_locked_amount(c) == MaxOf(DOMAIN c.locked_amounts)

total_amount(c) ==
    IF resource_type(c) = "NonFungible"
    THEN Cardinality(c.liquid_ids) + Cardinality(DOMAIN c.locked_ids)
    ELSE c.liquid_amount + max_locked_amount(c)

\* Err(InvalidAmount) iff the amount is not negative and not a multiple of
\* 10^(18 - divisibility)
check_amount(amount, divisibility) ==
    IF ~(amount < 0) /\ amount % Pow10(18 - divisibility) # 0
    THEN "InvalidAmount" ELSE "Ok"

\* put that drops the amount of other
container_put_losing(self, other) ==
    IF self.resource_def_id # other.resource_def_id
    THEN [err |-> "ResourceAddressNotMatching", self |-> self]
    ELSE IF other.locked_amounts # EmptyMap
    THEN [err |-> "panic", self |-> self]
    ELSE [err |-> "Ok", self |-> self]

\* the first n ids of a BTreeSet, in the order of the ids
first_ids(ids, n) == {id \in ids : Cardinality({x \in ids : x < id}) < n}

\* take that leaves what it takes in the container as well
container_take_copying(self, quantity) ==
    IF resource_type(self) = "NonFungible"
    THEN IF quantity < 0
         THEN [err |-> "panic", self |-> self, taken |-> self]
         ELSE [err |-> "Ok", self |-> self,
               taken |-> new_non_fungible(self.resource_def_id,
                                          first_ids(self.liquid_ids, quantity))]
    ELSE IF self.liquid_amount < quantity
    THEN [err |-> "InsufficientBalance", self |-> self, taken |-> self]
    ELSE [err |-> "Ok", self |-> self,
          taken |-> new_fungible(self.resource_def_id, self.divisibility, quantity)]

\* put that replaces what the container holds by what other holds
container_put_overwriting(self, other) ==
    IF self.resource_def_id # other.resource_def_id
    THEN [err |-> "ResourceAddressNotMatching", self |-> self]
    ELSE IF is_locked(other)
    THEN [err |-> "panic", self |-> self]
    ELSE IF resource_type(self) # resource_type(other)
    THEN [err |-> "panic", self |-> self]
    ELSE IF resource_type(self) = "NonFungible"
    THEN [err |-> "Ok", self |-> [self EXCEPT !.liquid_ids = other.liquid_ids]]
    ELSE [err |-> "Ok", self |-> [self EXCEPT !.liquid_amount = other.liquid_amount]]

\* put(self, other): [err, self]; "panic" is the failed assertion
container_put(self, other) ==
    IF self.resource_def_id # other.resource_def_id
    THEN [err |-> "ResourceAddressNotMatching", self |-> self]
    ELSE IF is_locked(other)
    THEN [err |-> "panic", self |-> self]
    ELSE IF resource_type(self) # resource_type(other)
    THEN [err |-> "panic", self |-> self]
    ELSE IF resource_type(self) = "NonFungible"
    THEN [err |-> "Ok",
          self |-> [self EXCEPT !.liquid_ids = @ \cup other.liquid_ids]]
    ELSE [err |-> "Ok",
          self |-> [self EXCEPT !.liquid_amount = @ + other.liquid_amount]]

\* take that refuses to empty a fungible container
container_take_strict(self, quantity) ==
    IF resource_type(self) = "NonFungible"
    THEN IF quantity < 0
         THEN [err |-> "panic", self |-> self, taken |-> self]
         ELSE LET taken == first_ids(self.liquid_ids, quantity)
              IN [err |-> "Ok",
                  self |-> [self EXCEPT !.liquid_ids = @ \ taken],
                  taken |-> new_non_fungible(self.resource_def_id, taken)]
    ELSE IF check_amount(quantity, self.divisibility) # "Ok"
    THEN [err |-> "InvalidAmount", self |-> self, taken |-> self]
    ELSE IF self.liquid_amount <= quantity
    THEN [err |-> "InsufficientBalance", self |-> self, taken |-> self]
    ELSE [err |-> "Ok",
          self |-> [self EXCEPT !.liquid_amount = @ - quantity],
          taken |-> new_fungible(self.resource_def_id, self.divisibility, quantity)]

\* take(self, quantity): [err, self, taken].  For a non-fungible container
\* the quantity is a whole number of units (a quantity with a fractional
\* part fails InvalidAmount and is not among the inputs); a negative
\* quantity passes check_amount and the parse into usize panics.
container_take(self, quantity) ==
    IF resource_type(self) = "NonFungible"
    THEN IF quantity < 0
         THEN [err |-> "panic", self |-> self, taken |-> self]
         ELSE LET taken == first_ids(self.liquid_ids, quantity)
              IN [err |-> "Ok",
                  self |-> [self EXCEPT !.liquid_ids = @ \ taken],
                  taken |-> new_non_fungible(self.resource_def_id, taken)]
    ELSE IF check_amount(quantity, self.divisibility) # "Ok"
    THEN [err |-> "InvalidAmount", self |-> self, taken |-> self]
    ELSE IF self.liquid_amount < quantity
    THEN [err |-> "InsufficientBalance", self |-> self, taken |-> self]
    ELSE [err |-> "Ok",
          self |-> [self EXCEPT !.liquid_amount = @ - quantity],
          taken |-> new_fungible(self.resource_def_id, self.divisibility, quantity)]

\* take_non_fungibles(self, ids): [err, self, taken].  The ids are removed
\* one by one in their order; at the first id that is not liquid the call
\* returns InsufficientBalance and the ids removed so far stay removed.
container_take_non_fungibles(self, ids) ==
    IF resource_type(self) = "Fungible"
    THEN [err |-> "NonFungibleOperationNotAllowed", self |-> self, taken |-> self]
    ELSE LET missing == ids \ self.liquid_ids
         IN IF missing # {}
            THEN LET first == CHOOSE m \in missing : \A x \in missing : m <= x
                 IN [err |-> "InsufficientBalance",
                     self |-> [self EXCEPT !.liquid_ids = @ \ {x \in ids : x < first}],
                     taken |-> self]
            ELSE [err |-> "Ok",
                  self |-> [self EXCEPT !.liquid_ids = @ \ ids],
                  taken |-> new_non_fungible(self.resource_def_id, ids)]

\* lock_amount / unlock_amount: the lock-count table of a fungible container
lock_amount(c, amount) ==
    LET max == max_locked_amount(c)
        n == IF amount \in DOMAIN c.locked_amounts THEN c.locked_amounts[amount] ELSE 0
    IN [c EXCEPT !.liquid_amount = IF amount > max THEN @ - (amount - max) ELSE @,
                 !.locked_amounts = Insert(@, amount, n + 1)]

unlock_amount(c, amount) ==
    IF amount \notin DOMAIN c.locked_amounts THEN c
    ELSE LET n == c.locked_amounts[amount]
             left == IF n = 1 THEN Remove(c.locked_amounts, amount)
                     ELSE Insert(c.locked_amounts, amount, n - 1)
         IN [c EXCEPT !.liquid_amount = @ + (max_locked_amount(c) - MaxOf(DOMAIN left)),
                      !.locked_amounts = left]

\* lock_ids / unlock_ids: the lock-count table of a non-fungible container;
\* a locked id is not liquid, and becomes liquid again with its last unlock
lock_ids(c, ids) ==
    [c EXCEPT !.liquid_ids = @ \ ids,
              !.locked_ids = [id \in DOMAIN @ \cup ids |->
                                 (IF id \in DOMAIN @ THEN @[id] ELSE 0)
                                 + (IF id \in ids THEN 1 ELSE 0)]]

unlock_ids(c, ids) ==
    LET unlocked == {id \in ids \cap DOMAIN c.locked_ids : c.locked_ids[id] = 1}
    IN [c EXCEPT !.liquid_ids = @ \cup unlocked,
                 !.locked_ids = [id \in DOMAIN @ \ unlocked |->
                                    IF id \in ids THEN @[id] - 1 ELSE @[id]]]

\* lock / unlock of the Amount of a proof
lock(c, amount) ==
    IF resource_type(c) = "NonFungible" THEN lock_ids(c, amount) ELSE lock_amount(c, amount)

unlock(c, amount) ==
    IF resource_type(c) = "NonFungible" THEN unlock_ids(c, amount)
    ELSE unlock_amount(c, amount)

(***************************************************************************)
(* Proof, Process and Track records.                                       *)
(***************************************************************************)
\* Proof::new: an unrestricted proof of the liquid amount of one container
Proof_new(resource_container_id, resource_container) ==
    [resource_def_id |-> resource_container.resource_def_id,
     restricted |-> FALSE,
     total_amount |-> liquid_amount(resource_container),
     source |-> resource_container_id]

\* an encoded value, reduced to the identifiers found in it
ScryptoValue(bucket_ids, proof_ids, vault_ids, lazy_map_ids) ==
    [bucket_ids |-> bucket_ids, proof_ids |-> proof_ids,
     vault_ids |-> vault_ids, lazy_map_ids |-> lazy_map_ids]

\* ComponentObjectRefs::new: the vault ids and lazy map ids a value names
ComponentObjectRefs_new == [vault_ids |-> {}, lazy_map_ids |-> {}]

\* UnclaimedLazyMap::new: the entries of a lazy map a frame created, and the
\* lazy maps and vaults that its entries and theirs have taken in
UnclaimedLazyMap_new ==
    [lazy_map |-> EmptyMap, descendent_lazy_maps |-> EmptyMap,
     descendent_vaults |-> EmptyMap]

EmptyValue == ScryptoValue(<<>>, <<>>, <<>>, <<>>)

\* Process::new; wasm is "None" until run() loads an interpreter.  tbd_limit
\* and tbd_balance are the fields of the frame's RadixEngineScryptoRuntime
\* (RadixEngineScryptoRuntime::new: the balance starts at the limit).
Process_new(depth) ==
    [depth |-> depth,
     tbd_limit |-> TbdLimit,
     tbd_balance |-> TbdLimit,
     buckets |-> EmptyMap,
     proofs |-> EmptyMap,
     wasm |-> "None",
     component_address |-> "None",
     state |-> EmptyValue,
     initial_loaded_object_refs |-> ComponentObjectRefs_new,
     additional_object_refs |-> ComponentObjectRefs_new,
     owned_vaults |-> EmptyMap,
     owned_lazy_maps |-> EmptyMap,
     id_allocator |-> 0,
     worktop |-> EmptyMap,
     auth_zone |-> <<>>]

\* an authorization predicate: anyone, or the holder of a proof of a resource
Public == <<"Public">>
Protected(resource_address) == <<"Protected", resource_address>>

\* the per-method authorization of the two resource managers of the ledger:
\* minting R1 and burning R2 need a proof of R1
ResourceAuthorization(r) ==
    [mint |-> IF r = "R1" THEN Protected("R1") ELSE Public,
     burn |-> IF r = "R2" THEN Protected("R1") ELSE Public,
     take_from_vault |-> Public,
     take_non_fungibles_from_vault |-> Public]

\* the substates of the model: the state of each component, the vaults and
\* the lazy map entries of each component, and the per-method authorization
\* and the total supply of each resource manager
InitialSubstates ==
    [components |-> Insert(EmptyMap, AccountAddress,
                           ScryptoValue(<<>>, <<>>, <<PersistedVault>>, <<>>)),
     vaults |-> Insert(EmptyMap, <<AccountAddress, PersistedVault>>,
                       new_fungible("R1", Divisibility, VaultSupply)),
     lazy_maps |-> EmptyMap,
     resource_managers |-> [r \in Resources \cup NonFungibleResources |->
                               ResourceAuthorization(r)],
     total_supply |-> [r \in Resources \cup NonFungibleResources |->
                          IF r = "R1" THEN VaultSupply ELSE 0],
     non_fungibles |-> {}]

\* the substates of a ledger whose account vault holds the non-fungibles
\* 1..VaultSupply of N1: the resource manager's table has one entry for
\* each of them
NonFungibleSubstates ==
    [InitialSubstates EXCEPT
         !.vaults = Insert(EmptyMap, <<AccountAddress, PersistedVault>>,
                           new_non_fungible("N1", 1..VaultSupply)),
         !.total_supply = [r \in Resources \cup NonFungibleResources |->
                              IF r = "N1" THEN VaultSupply ELSE 0],
         !.non_fungibles = {<<"N1", id>> : id \in 1..VaultSupply}]

\* the substates of a ledger whose account vault holds CoarseSupply units of
\* the granularity of D1
CoarseSubstates ==
    [InitialSubstates EXCEPT
         !.vaults = Insert(EmptyMap, <<AccountAddress, PersistedVault>>,
                           new_fungible("D1", CoarseDivisibility,
                                        CoarseSupply * Granularity(CoarseDivisibility))),
         !.resource_managers = [r \in DOMAIN @ \cup CoarseResources |->
                                   ResourceAuthorization(r)],
         !.total_supply = [r \in DOMAIN @ \cup CoarseResources |->
                              IF r = "D1"
                              THEN CoarseSupply * Granularity(CoarseDivisibility)
                              ELSE 0]]

\* Track::new over a store: nothing buffered, counters at zero
Track_new(substates) ==
    [substates |-> substates, next_id |-> 0, next_vault_id |-> 0, next_lazy_map_id |-> 0]

\* the frames and the track, as handed to and returned by an operation
World == [frames |-> frames, track |-> track]

Top(w) == Len(w.frames)

Cur(w) == w.frames[Len(w.frames)]

Ok(w) == [frames |-> w.frames, track |-> w.track, err |-> "Ok"]

Fail(w, e) == [frames |-> w.frames, track |-> w.track, err |-> e]

(***************************************************************************)
(* Identifier allocation.                                                  *)
(***************************************************************************)
\* new_bucket_id / new_proof_id: the frame's allocator at depth 0, the
\* Track's counter below
\* an allocator that hands out the next id without advancing its counter
new_id_reusing(w) ==
    [id |-> IF Cur(w).depth = 0 THEN <<"Transaction", Cur(w).id_allocator + 1>>
            ELSE <<"Application", w.track.next_id + 1>>,
     w |-> w]

new_id(w) ==
    IF Cur(w).depth = 0
    THEN [id |-> <<"Transaction", Cur(w).id_allocator + 1>>,
          w |-> [w EXCEPT !.frames[Top(w)].id_allocator = @ + 1]]
    ELSE [id |-> <<"Application", w.track.next_id + 1>>,
          w |-> [w EXCEPT !.track.next_id = @ + 1]]

\* the model stops handing out ids at its bounds
CanAllocate(w) ==
    IF Cur(w).depth = 0 THEN Cur(w).id_allocator < MaxTransactionIds
    ELSE w.track.next_id < MaxApplicationIds

(***************************************************************************)
(* Locks: a proof locks its amount in the container it was made of.        *)
(***************************************************************************)
BucketHolders(w, id) == {i \in 1..Len(w.frames) : id \in DOMAIN w.frames[i].buckets}

VaultOwners(w, id) == {i \in 1..Len(w.frames) : id \in DOMAIN w.frames[i].owned_vaults}

\* the frames and the lazy maps they created that have taken in vault id
VaultHolders(w, id) ==
    {h \in UNION {{<<i, m>> : m \in DOMAIN w.frames[i].owned_lazy_maps} :
                      i \in 1..Len(w.frames)} :
         id \in DOMAIN w.frames[h[1]].owned_lazy_maps[h[2]].descendent_vaults}

VaultKeys(w, id) == {k \in DOMAIN w.track.substates.vaults : k[2] = id}

\* the container a proof was made of, if it is still there
HasSource(w, source) ==
    IF source[1] = "Bucket" THEN BucketHolders(w, source[2]) # {}
    ELSE \/ VaultOwners(w, source[2]) # {}
         \/ VaultHolders(w, source[2]) # {}
         \/ VaultKeys(w, source[2]) # {}

SourceContainer(w, source) ==
    IF source[1] = "Bucket"
    THEN w.frames[CHOOSE i \in BucketHolders(w, source[2]) : TRUE].buckets[source[2]]
    ELSE IF VaultOwners(w, source[2]) # {}
    THEN w.frames[CHOOSE i \in VaultOwners(w, source[2]) : TRUE].owned_vaults[source[2]]
    ELSE IF VaultHolders(w, source[2]) # {}
    THEN LET h == CHOOSE h \in VaultHolders(w, source[2]) : TRUE
         IN w.frames[h[1]].owned_lazy_maps[h[2]].descendent_vaults[source[2]]
    ELSE w.track.substates.vaults[CHOOSE k \in VaultKeys(w, source[2]) : TRUE]

SetSourceContainer(w, source, c) ==
    IF source[1] = "Bucket"
    THEN LET i == CHOOSE i \in BucketHolders(w, source[2]) : TRUE
         IN [w EXCEPT !.frames[i].buckets[source[2]] = c]
    ELSE IF VaultOwners(w, source[2]) # {}
    THEN LET i == CHOOSE i \in VaultOwners(w, source[2]) : TRUE
         IN [w EXCEPT !.frames[i].owned_vaults[source[2]] = c]
    ELSE IF VaultHolders(w, source[2]) # {}
    THEN LET h == CHOOSE h \in VaultHolders(w, source[2]) : TRUE
         IN [w EXCEPT !.frames[h[1]].owned_lazy_maps[h[2]].descendent_vaults[source[2]] = c]
    ELSE LET k == CHOOSE k \in VaultKeys(w, source[2]) : TRUE
         IN [w EXCEPT !.track.substates.vaults[k] = c]

\* Proof::drop: the source's lock counter is decremented
Proof_drop(w, proof) ==
    IF ~HasSource(w, proof.source) THEN w
    ELSE SetSourceContainer(w, proof.source,
             unlock(SourceContainer(w, proof.source), proof.total_amount))

\* Proof::clone: the source's lock counter is incremented again
Proof_clone(w, proof) ==
    IF ~HasSource(w, proof.source) THEN w
    ELSE SetSourceContainer(w, proof.source,
             lock(SourceContainer(w, proof.source), proof.total_amount))

RECURSIVE drop_proofs(_, _)
drop_proofs(w, ps) ==
    IF ps = <<>> THEN w ELSE drop_proofs(Proof_drop(w, Head(ps)), Tail(ps))

RECURSIVE MapValues(_)
MapValues(f) ==
    IF DOMAIN f = {} THEN <<>>
    ELSE LET k == CHOOSE k \in DOMAIN f : TRUE
         IN <<f[k]>> \o MapValues(Remove(f, k))

\* the proofs are forgotten, the containers they lock stay locked
drop_all_proofs_forgetting(w) ==
    [w EXCEPT !.frames[Top(w)].proofs = EmptyMap,
              !.frames[Top(w)].auth_zone = <<>>]

\* drop_all_proofs: every named proof, then every auth-zone proof
drop_all_proofs(w) ==
    LET named == drop_proofs(w, MapValues(Cur(w).proofs))
        zone == drop_proofs(named, Cur(w).auth_zone)
    IN [zone EXCEPT !.frames[Top(w)].proofs = EmptyMap,
                    !.frames[Top(w)].auth_zone = <<>>]

(***************************************************************************)
(* Worktop: one container per resource address.                            *)
(***************************************************************************)
\* Worktop::put: [err, worktop]
Worktop_put(worktop, container) ==
    LET r == container.resource_def_id
        entry == IF r \in DOMAIN worktop THEN worktop[r] ELSE new_empty(r)
        res == container_put(entry, container)
    IN [err |-> res.err,
        worktop |-> IF res.err = "Ok" THEN Insert(worktop, r, res.self) ELSE worktop]

\* Worktop::take: [err, worktop, taken]; an absent entry gives an empty bucket
Worktop_take(worktop, amount, resource_address) ==
    IF resource_address \notin DOMAIN worktop
    THEN [err |-> "Ok", worktop |-> worktop, taken |-> new_empty(resource_address)]
    ELSE LET res == container_take(worktop[resource_address], amount)
         IN [err |-> res.err,
             worktop |-> IF res.err = "Ok"
                         THEN Insert(worktop, resource_address, res.self) ELSE worktop,
             taken |-> res.taken]

Worktop_is_empty(worktop) == \A r \in DOMAIN worktop : total_amount(worktop[r]) = 0

(***************************************************************************)
(* Transaction instructions of the root frame.                             *)
(***************************************************************************)
take_from_worktop(w, amount, resource_address) ==
    LET a == new_id(w)
        res == Worktop_take(Cur(a.w).worktop, amount, resource_address)
    IN IF res.err # "Ok" THEN Fail(a.w, res.err)
       ELSE Ok([a.w EXCEPT !.frames[Top(w)].worktop = res.worktop,
                           !.frames[Top(w)].buckets = Insert(@, a.id, res.taken)])

return_to_worktop(w, bucket_id) ==
    IF bucket_id \notin DOMAIN Cur(w).buckets THEN Fail(w, "BucketNotFound")
    ELSE LET removed == [w EXCEPT !.frames[Top(w)].buckets = Remove(@, bucket_id)]
             res == Worktop_put(Cur(w).worktop, Cur(w).buckets[bucket_id])
         IN IF res.err # "Ok" THEN Fail(removed, res.err)
            ELSE Ok([removed EXCEPT !.frames[Top(w)].worktop = res.worktop])

(***************************************************************************)
(* Auth zone and proofs.                                                   *)
(***************************************************************************)
pop_from_auth_zone(w) ==
    IF Cur(w).auth_zone = <<>> THEN Fail(w, "EmptyAuthZone")
    ELSE LET a == new_id(w)
             zone == Cur(w).auth_zone
         IN Ok([a.w EXCEPT !.frames[Top(w)].auth_zone = SubSeq(zone, 1, Len(zone) - 1),
                           !.frames[Top(w)].proofs = Insert(@, a.id, zone[Len(zone)])])

\* push_to_auth_zone without its check of the restricted flag
push_to_auth_zone_unchecked(w, proof_id) ==
    IF proof_id \notin DOMAIN Cur(w).proofs THEN Fail(w, "ProofNotFound")
    ELSE LET removed == [w EXCEPT !.frames[Top(w)].proofs = Remove(@, proof_id)]
         IN Ok([removed EXCEPT !.frames[Top(w)].auth_zone =
                                    Append(@, Cur(w).proofs[proof_id])])

push_to_auth_zone(w, proof_id) ==
    IF proof_id \notin DOMAIN Cur(w).proofs THEN Fail(w, "ProofNotFound")
    ELSE LET removed == [w EXCEPT !.frames[Top(w)].proofs = Remove(@, proof_id)]
             proof == Cur(w).proofs[proof_id]
         IN IF proof.restricted THEN Fail(removed, "CantMoveRestrictedProof")
            ELSE Ok([removed EXCEPT !.frames[Top(w)].auth_zone = Append(@, proof)])

\* Bucket::create_proof on the bucket's container: the liquid amount is locked
Container_create_proof(c, resource_container_id) ==
    [container |-> lock(c, liquid_amount(c)),
     proof |-> Proof_new(resource_container_id, c)]

create_bucket_proof(w, bucket_id) ==
    LET a == new_id(w)
    IN IF bucket_id \notin DOMAIN Cur(w).buckets THEN Fail(a.w, "BucketNotFound")
       ELSE LET res == Container_create_proof(Cur(w).buckets[bucket_id],
                                              <<"Bucket", bucket_id>>)
            IN Ok([a.w EXCEPT !.frames[Top(w)].buckets[bucket_id] = res.container,
                              !.frames[Top(w)].proofs = Insert(@, a.id, res.proof)])

\* Bucket::create_proof_by_amount: the amount is locked, of what the
\* container holds liquid or already locked
Container_create_proof_by_amount(c, amount, resource_container_id) ==
    IF resource_type(c) # "Fungible" \/ total_amount(c) < amount
    THEN [err |-> "InsufficientBalance", container |-> c, proof |-> Proof_new(resource_container_id, c)]
    ELSE [err |-> "Ok",
          container |-> lock_amount(c, amount),
          proof |-> [Proof_new(resource_container_id, c) EXCEPT !.total_amount = amount]]

\* Bucket::create_proof_by_ids: the ids are locked, each of them liquid or
\* already locked in the container
Container_create_proof_by_ids(c, ids, resource_container_id) ==
    IF resource_type(c) # "NonFungible"
    THEN [err |-> "NonFungibleOperationNotAllowed", container |-> c,
          proof |-> Proof_new(resource_container_id, c)]
    ELSE IF ~(ids \subseteq c.liquid_ids \cup DOMAIN c.locked_ids)
    THEN [err |-> "InsufficientBalance", container |-> c,
          proof |-> Proof_new(resource_container_id, c)]
    ELSE [err |-> "Ok",
          container |-> lock_ids(c, ids),
          proof |-> [Proof_new(resource_container_id, c) EXCEPT !.total_amount = ids]]

create_bucket_proof_by_amount(w, bucket_id, amount) ==
    LET a == new_id(w)
    IN IF bucket_id \notin DOMAIN Cur(w).buckets THEN Fail(a.w, "BucketNotFound")
       ELSE LET res == Container_create_proof_by_amount(
                           Cur(w).buckets[bucket_id], amount, <<"Bucket", bucket_id>>)
            IN IF res.err # "Ok" THEN Fail(a.w, res.err)
               ELSE Ok([a.w EXCEPT !.frames[Top(w)].buckets[bucket_id] = res.container,
                                   !.frames[Top(w)].proofs = Insert(@, a.id, res.proof)])

create_bucket_proof_by_ids(w, bucket_id, ids) ==
    LET a == new_id(w)
    IN IF bucket_id \notin DOMAIN Cur(w).buckets THEN Fail(a.w, "BucketNotFound")
       ELSE LET res == Container_create_proof_by_ids(
                           Cur(w).buckets[bucket_id], ids, <<"Bucket", bucket_id>>)
            IN IF res.err # "Ok" THEN Fail(a.w, res.err)
               ELSE Ok([a.w EXCEPT !.frames[Top(w)].buckets[bucket_id] = res.container,
                                   !.frames[Top(w)].proofs = Insert(@, a.id, res.proof)])

\* a clone that is not restricted
clone_proof_unrestricted(w, proof_id) ==
    LET a == new_id(w)
    IN IF proof_id \notin DOMAIN Cur(w).proofs THEN Fail(a.w, "ProofNotFound")
       ELSE LET proof == Cur(w).proofs[proof_id]
                locked == Proof_clone(a.w, proof)
            IN Ok([locked EXCEPT !.frames[Top(w)].proofs =
                       Insert(@, a.id, [proof EXCEPT !.restricted = FALSE])])

clone_proof(w, proof_id) ==
    LET a == new_id(w)
    IN IF proof_id \notin DOMAIN Cur(w).proofs THEN Fail(a.w, "ProofNotFound")
       ELSE LET proof == Cur(w).proofs[proof_id]
                locked == Proof_clone(a.w, proof)
            IN Ok([locked EXCEPT !.frames[Top(w)].proofs = Insert(@, a.id, proof)])

\* drop_proof that forgets the proof without unlocking its source
drop_proof_forgetting(w, proof_id) ==
    IF proof_id \notin DOMAIN Cur(w).proofs THEN Fail(w, "ProofNotFound")
    ELSE Ok([w EXCEPT !.frames[Top(w)].proofs = Remove(@, proof_id)])

drop_proof(w, proof_id) ==
    IF proof_id \notin DOMAIN Cur(w).proofs THEN Fail(w, "ProofNotFound")
    ELSE LET removed == [w EXCEPT !.frames[Top(w)].proofs = Remove(@, proof_id)]
         IN Ok(Proof_drop(removed, Cur(w).proofs[proof_id]))

(***************************************************************************)
(* Moving buckets and proofs between frames.                               *)
(***************************************************************************)
\* a check of the call data that lets every value through
process_call_data_any(validated) == "Ok"

process_call_data(validated) ==
    IF validated.lazy_map_ids # <<>> THEN "LazyMapNotAllowed"
    ELSE IF validated.vault_ids # <<>> THEN "VaultNotAllowed"
    ELSE "Ok"

process_return_data(validated) ==
    IF validated.lazy_map_ids # <<>> THEN "LazyMapNotAllowed"
    ELSE IF validated.vault_ids # <<>> THEN "VaultNotAllowed"
    ELSE "Ok"

\* send_buckets without its lock check, and send_buckets that leaves the
\* bucket with the sender: the faults the properties below rule out
RECURSIVE send_buckets_unlocked(_, _, _)
send_buckets_unlocked(buckets, bucket_ids, moving) ==
    IF bucket_ids = <<>> THEN [err |-> "Ok", buckets |-> buckets, moving |-> moving]
    ELSE LET id == Head(bucket_ids)
         IN IF id \notin DOMAIN buckets
            THEN [err |-> "BucketNotFound", buckets |-> buckets, moving |-> moving]
            ELSE send_buckets_unlocked(Remove(buckets, id), Tail(bucket_ids),
                                       Insert(moving, id, buckets[id]))

RECURSIVE send_buckets_copying(_, _, _)
send_buckets_copying(buckets, bucket_ids, moving) ==
    IF bucket_ids = <<>> THEN [err |-> "Ok", buckets |-> buckets, moving |-> moving]
    ELSE LET id == Head(bucket_ids)
         IN IF id \notin DOMAIN buckets
            THEN [err |-> "BucketNotFound", buckets |-> buckets, moving |-> moving]
            ELSE IF is_locked(buckets[id])
            THEN [err |-> "CantMoveLockedBucket", buckets |-> buckets, moving |-> moving]
            ELSE send_buckets_copying(buckets, Tail(bucket_ids),
                                      Insert(moving, id, buckets[id]))

\* send_buckets: [err, buckets (left with the sender), moving]
RECURSIVE send_buckets(_, _, _)
send_buckets(buckets, bucket_ids, moving) ==
    IF bucket_ids = <<>> THEN [err |-> "Ok", buckets |-> buckets, moving |-> moving]
    ELSE LET id == Head(bucket_ids)
         IN IF id \notin DOMAIN buckets
            THEN [err |-> "BucketNotFound", buckets |-> buckets, moving |-> moving]
            ELSE IF is_locked(buckets[id])
            THEN [err |-> "CantMoveLockedBucket",
                  buckets |-> Remove(buckets, id), moving |-> moving]
            ELSE send_buckets(Remove(buckets, id), Tail(bucket_ids),
                              Insert(moving, id, buckets[id]))

RECURSIVE put_all(_, _)
put_all(worktop, containers) ==
    IF containers = <<>> THEN [err |-> "Ok", worktop |-> worktop]
    ELSE LET res == Worktop_put(worktop, Head(containers))
         IN IF res.err # "Ok" THEN res ELSE put_all(res.worktop, Tail(containers))

\* receive_buckets into frame f: [err, frame]
receive_buckets(f, moving) ==
    IF f.depth = 0
    THEN LET res == put_all(f.worktop, MapValues(moving))
         IN [err |-> res.err, frame |-> [f EXCEPT !.worktop = res.worktop]]
    ELSE [err |-> "Ok", frame |-> [f EXCEPT !.buckets = Extend(@, moving)]]

\* send_proofs without its check of the restricted flag
RECURSIVE send_proofs_any(_, _, _, _)
send_proofs_any(proofs, proof_ids, method, moving) ==
    IF proof_ids = <<>> THEN [err |-> "Ok", proofs |-> proofs, moving |-> moving]
    ELSE LET id == Head(proof_ids)
         IN IF id \notin DOMAIN proofs
            THEN [err |-> "ProofNotFound", proofs |-> proofs, moving |-> moving]
            ELSE send_proofs_any(
                     Remove(proofs, id), Tail(proof_ids), method,
                     Insert(moving, id,
                            [proofs[id] EXCEPT !.restricted = @ \/ method = "AsArgument"]))

\* send_proofs: [err, proofs (left with the sender), moving]
RECURSIVE send_proofs(_, _, _, _)
send_proofs(proofs, proof_ids, method, moving) ==
    IF proof_ids = <<>> THEN [err |-> "Ok", proofs |-> proofs, moving |-> moving]
    ELSE LET id == Head(proof_ids)
         IN IF id \notin DOMAIN proofs
            THEN [err |-> "ProofNotFound", proofs |-> proofs, moving |-> moving]
            ELSE IF proofs[id].restricted
            THEN [err |-> "CantMoveRestrictedProof",
                  proofs |-> Remove(proofs, id), moving |-> moving]
            ELSE send_proofs(
                     Remove(proofs, id), Tail(proof_ids), method,
                     Insert(moving, id,
                            IF method = "AsArgument"
                            THEN [proofs[id] EXCEPT !.restricted = TRUE]
                            ELSE proofs[id]))

\* the orders in which the iteration over a HashMap of keys S may yield them:
\* the order depends on the hasher's state, which is not part of the
\* transaction or of the store
Iterations(S) ==
    {order \in [1..Cardinality(S) -> S] :
         \A i, j \in 1..Cardinality(S) : order[i] = order[j] => i = j}

\* receive_proofs into frame f; order is the order in which the iteration
\* over the map moving yields its proofs
receive_proofs(f, moving, order) ==
    IF f.depth = 0
    THEN [f EXCEPT !.auth_zone = @ \o [i \in DOMAIN order |-> moving[order[i]]]]
    ELSE [f EXCEPT !.proofs = Extend(@, moving)]

(***************************************************************************)
(* Resource check of a frame.                                              *)
(***************************************************************************)
\* WasmProcess::check_resource: no dangling vault, no dangling lazy map
WasmProcess_check_resource(f) ==
    DOMAIN f.owned_vaults = {} /\ DOMAIN f.owned_lazy_maps = {}

\* check_resource blind to buckets, and blind to the worktop
check_resource_without_buckets(f) ==
    IF /\ Worktop_is_empty(f.worktop)
       /\ (f.wasm # "None" => WasmProcess_check_resource(f))
    THEN "Ok" ELSE "ResourceCheckFailure"

check_resource_without_worktop(f) ==
    IF /\ DOMAIN f.buckets = {}
       /\ (f.wasm # "None" => WasmProcess_check_resource(f))
    THEN "Ok" ELSE "ResourceCheckFailure"

check_resource(f) ==
    IF /\ DOMAIN f.buckets = {}
       /\ Worktop_is_empty(f.worktop)
       /\ (f.wasm # "None" => WasmProcess_check_resource(f))
    THEN "Ok" ELSE "ResourceCheckFailure"

(***************************************************************************)
(* Vaults of the running frame.                                            *)
(***************************************************************************)
\* the lazy maps the frame created that hold vault_id among the vaults they
\* have taken in
VaultRoots(f, vault_id) ==
    {m \in DOMAIN f.owned_lazy_maps :
         vault_id \in DOMAIN f.owned_lazy_maps[m].descendent_vaults}

\* get_local_vault: [err, source]; the vault is one the frame created
\* ("Owned", or "Descendent" once an entry of a lazy map the frame created
\* names it) or one of the component the frame runs ("Track")
get_local_vault(w, vault_id) ==
    LET f == Cur(w)
    IN IF f.wasm = "None" THEN [err |-> "IllegalSystemCall", source |-> "None"]
       ELSE IF vault_id \in DOMAIN f.owned_vaults THEN [err |-> "Ok", source |-> "Owned"]
       ELSE IF VaultRoots(f, vault_id) # {} THEN [err |-> "Ok", source |-> "Descendent"]
       ELSE IF f.wasm = "Component"
       THEN IF /\ vault_id \notin f.initial_loaded_object_refs.vault_ids
               /\ vault_id \notin f.additional_object_refs.vault_ids
            THEN [err |-> "VaultNotFound", source |-> "None"]
            ELSE [err |-> "Ok", source |-> "Track"]
       ELSE [err |-> "VaultNotFound", source |-> "None"]

LocalVault(w, local, vault_id) ==
    IF local.source = "Owned" THEN Cur(w).owned_vaults[vault_id]
    ELSE IF local.source = "Descendent"
    THEN LET root == CHOOSE m \in VaultRoots(Cur(w), vault_id) : TRUE
         IN Cur(w).owned_lazy_maps[root].descendent_vaults[vault_id]
    ELSE w.track.substates.vaults[<<Cur(w).component_address, vault_id>>]

SetLocalVault(w, local, vault_id, c) ==
    IF local.source = "Owned"
    THEN [w EXCEPT !.frames[Top(w)].owned_vaults[vault_id] = c]
    ELSE IF local.source = "Descendent"
    THEN LET root == CHOOSE m \in VaultRoots(Cur(w), vault_id) : TRUE
         IN [w EXCEPT !.frames[Top(w)].owned_lazy_maps[root].descendent_vaults[vault_id] = c]
    ELSE [w EXCEPT !.track.substates.vaults[<<Cur(w).component_address, vault_id>>] = c]

create_vault_proof(w, vault_id) ==
    LET a == new_id(w)
        local == get_local_vault(w, vault_id)
    IN IF local.err # "Ok" THEN Fail(a.w, local.err)
       ELSE LET res == Container_create_proof(LocalVault(w, local, vault_id),
                                              <<"Vault", vault_id>>)
                locked == SetLocalVault(a.w, local, vault_id, res.container)
            IN Ok([locked EXCEPT !.frames[Top(w)].proofs = Insert(@, a.id, res.proof)])

handle_create_vault(w, resource_address) ==
    IF Cur(w).wasm = "None" THEN Fail(w, "IllegalSystemCall")
    ELSE IF resource_address \notin Resources THEN Fail(w, "ResourceManagerNotFound")
    ELSE LET vault_id == <<"Vault", w.track.next_vault_id + 1>>
         IN Ok([w EXCEPT !.track.next_vault_id = @ + 1,
                         !.frames[Top(w)].owned_vaults =
                             Insert(@, vault_id, new_empty(resource_address))])

handle_put_into_vault(w, bucket_id, vault_id) ==
    IF bucket_id \notin DOMAIN Cur(w).buckets THEN Fail(w, "BucketNotFound")
    ELSE LET removed == [w EXCEPT !.frames[Top(w)].buckets = Remove(@, bucket_id)]
             local == get_local_vault(w, vault_id)
         IN IF local.err # "Ok" THEN Fail(removed, local.err)
            ELSE LET res == container_put(LocalVault(w, local, vault_id),
                                          Cur(w).buckets[bucket_id])
                 IN IF res.err # "Ok" THEN Fail(removed, res.err)
                    ELSE Ok(SetLocalVault(removed, local, vault_id, res.self))

\* internal_call, execution on SNodeState::Vault: Vault::main takes the
\* amount, or the non-fungibles, of the argument and the bucket it returns
\* gets a new id in the same frame
Vault_main(w, vault_id, function, arg) ==
    LET local == get_local_vault(w, vault_id)
    IN IF local.err # "Ok" THEN Fail(w, local.err)
       ELSE LET res == IF function = "take_non_fungibles_from_vault"
                       THEN container_take_non_fungibles(
                                LocalVault(w, local, vault_id), arg)
                       ELSE container_take(LocalVault(w, local, vault_id), arg)
            IN IF res.err # "Ok"
               THEN Fail(SetLocalVault(w, local, vault_id, res.self), res.err)
               ELSE LET taken == SetLocalVault(w, local, vault_id, res.self)
                        a == new_id(taken)
                    IN Ok([a.w EXCEPT !.frames[Top(w)].buckets =
                                          Insert(@, a.id, res.taken)])

(***************************************************************************)
(* Buckets of the running frame.                                           *)
(***************************************************************************)
\* a merge that leaves the other bucket in the frame
handle_put_into_bucket_keeping(w, bucket_id, other) ==
    IF other \notin DOMAIN Cur(w).buckets \/ bucket_id \notin DOMAIN Cur(w).buckets
    THEN Fail(w, "BucketNotFound")
    ELSE LET res == container_put(Cur(w).buckets[bucket_id], Cur(w).buckets[other])
         IN IF res.err # "Ok" THEN Fail(w, res.err)
            ELSE Ok([w EXCEPT !.frames[Top(w)].buckets[bucket_id] = res.self])

handle_put_into_bucket(w, bucket_id, other) ==
    IF other \notin DOMAIN Cur(w).buckets THEN Fail(w, "BucketNotFound")
    ELSE LET removed == [w EXCEPT !.frames[Top(w)].buckets = Remove(@, other)]
         IN IF bucket_id \notin DOMAIN Cur(removed).buckets
            THEN Fail(removed, "BucketNotFound")
            ELSE LET res == container_put(Cur(w).buckets[bucket_id], Cur(w).buckets[other])
                 IN IF res.err # "Ok" THEN Fail(removed, res.err)
                    ELSE Ok([removed EXCEPT !.frames[Top(w)].buckets[bucket_id] = res.self])

handle_take_from_bucket(w, bucket_id, amount) ==
    IF bucket_id \notin DOMAIN Cur(w).buckets THEN Fail(w, "BucketNotFound")
    ELSE LET res == container_take(Cur(w).buckets[bucket_id], amount)
         IN IF res.err # "Ok" THEN Fail(w, res.err)
            ELSE LET taken == [w EXCEPT !.frames[Top(w)].buckets[bucket_id] = res.self]
                     a == new_id(taken)
                 IN Ok([a.w EXCEPT !.frames[Top(w)].buckets = Insert(@, a.id, res.taken)])

\* the bucket is borrowed mutably: what take_non_fungibles removed before it
\* failed stays removed
handle_take_non_fungibles_from_bucket(w, bucket_id, non_fungible_ids) ==
    IF bucket_id \notin DOMAIN Cur(w).buckets THEN Fail(w, "BucketNotFound")
    ELSE LET res == container_take_non_fungibles(Cur(w).buckets[bucket_id],
                                                 non_fungible_ids)
             taken == [w EXCEPT !.frames[Top(w)].buckets[bucket_id] = res.self]
             a == new_id(taken)
         IN IF res.err # "Ok" THEN Fail(taken, res.err)
            ELSE Ok([a.w EXCEPT !.frames[Top(w)].buckets = Insert(@, a.id, res.taken)])

(***************************************************************************)
(* Mint and burn.                                                          *)
(***************************************************************************)
\* resource_manager_invoke("mint"): [err, track, bucket]
\* a mint that has no maximum amount
resource_manager_mint_uncapped(tr, resource_address, amount) ==
    IF resource_address \in NonFungibleResources
    THEN [err |-> "Ok",
          track |-> [tr EXCEPT
              !.substates.total_supply[resource_address] = @ + Cardinality(amount),
              !.substates.non_fungibles =
                  @ \cup {<<resource_address, id>> : id \in amount}],
          bucket |-> new_non_fungible(resource_address, amount)]
    ELSE IF check_amount(amount, divisibility_of(resource_address)) # "Ok"
    THEN [err |-> "InvalidAmount", track |-> tr, bucket |-> new_empty(resource_address)]
    ELSE [err |-> "Ok",
          track |-> [tr EXCEPT !.substates.total_supply[resource_address] = @ + amount],
          bucket |-> new_fungible(resource_address, divisibility_of(resource_address),
                                  amount)]

resource_manager_mint(tr, resource_address, amount) ==
    IF resource_address \in NonFungibleResources
    THEN IF \E id \in amount : <<resource_address, id>> \in tr.substates.non_fungibles
         THEN [err |-> "NonFungibleAlreadyExists", track |-> tr,
               bucket |-> new_empty(resource_address)]
         ELSE [err |-> "Ok",
               track |-> [tr EXCEPT
                   !.substates.total_supply[resource_address] = @ + Cardinality(amount),
                   !.substates.non_fungibles =
                       @ \cup {<<resource_address, id>> : id \in amount}],
               bucket |-> new_non_fungible(resource_address, amount)]
    ELSE IF check_amount(amount, divisibility_of(resource_address)) # "Ok"
    THEN [err |-> "InvalidAmount", track |-> tr, bucket |-> new_empty(resource_address)]
    ELSE IF amount > MaxMintAmount
    THEN [err |-> "MaxMintAmountExceeded", track |-> tr,
          bucket |-> new_empty(resource_address)]
    ELSE [err |-> "Ok",
          track |-> [tr EXCEPT !.substates.total_supply[resource_address] = @ + amount],
          bucket |-> new_fungible(resource_address, divisibility_of(resource_address),
                                  amount)]

\* internal_call, execution on SNodeState::Resource with function "mint": the
\* bucket is created in a frame one level deeper, returned, and received by
\* the caller
run_resource_mint(w, resource_address, amount) ==
    LET res == resource_manager_mint(w.track, resource_address, amount)
        minted == [w EXCEPT !.track = res.track]
        bucket_id == <<"Application", minted.track.next_id + 1>>
        allocated == [minted EXCEPT !.track.next_id = @ + 1]
        received == receive_buckets(Cur(w), Insert(EmptyMap, bucket_id, res.bucket))
    IN IF res.err # "Ok" THEN Fail(w, res.err)
       ELSE IF received.err # "Ok" THEN Fail(allocated, received.err)
       ELSE Ok([allocated EXCEPT !.frames[Top(w)] = received.frame])

\* Bucket::drop: the resource manager burns the bucket's whole amount
Bucket_drop(tr, bucket) ==
    [tr EXCEPT !.substates.total_supply[bucket.resource_def_id] = @ - total_amount(bucket)]


(***************************************************************************)
(* Components and lazy maps.                                               *)
(***************************************************************************)
handle_create_lazy_map(w) ==
    IF Cur(w).wasm = "None" THEN Fail(w, "IllegalSystemCall")
    ELSE LET lazy_map_id == <<"LazyMap", w.track.next_lazy_map_id + 1>>
         IN Ok([w EXCEPT !.track.next_lazy_map_id = @ + 1,
                         !.frames[Top(w)].owned_lazy_maps =
                             Insert(@, lazy_map_id, UnclaimedLazyMap_new)])

\* an entry check that lets bucket ids and proof ids through
process_entry_data_any(validated) ==
    [err |-> "Ok",
     vault_ids |-> {validated.vault_ids[i] : i \in DOMAIN validated.vault_ids},
     lazy_map_ids |-> {validated.lazy_map_ids[i] : i \in DOMAIN validated.lazy_map_ids}]

\* process_entry_data: [err, vault_ids, lazy_map_ids]
process_entry_data(validated) ==
    LET lazy_map_ids == {validated.lazy_map_ids[i] : i \in DOMAIN validated.lazy_map_ids}
        vault_ids == {validated.vault_ids[i] : i \in DOMAIN validated.vault_ids}
        err_ == IF validated.bucket_ids # <<>> THEN "BucketNotAllowed"
                ELSE IF validated.proof_ids # <<>> THEN "ProofNotAllowed"
                ELSE IF Cardinality(lazy_map_ids) # Len(validated.lazy_map_ids)
                THEN "DuplicateLazyMap"
                ELSE IF Cardinality(vault_ids) # Len(validated.vault_ids)
                THEN "DuplicateVault"
                ELSE "Ok"
    IN [err |-> err_, vault_ids |-> vault_ids, lazy_map_ids |-> lazy_map_ids]

\* ComponentObjectRefs::remove: the ids of other leave self; an id of other
\* that self does not name is an error
ComponentObjectRefs_remove(self, other) ==
    [err |-> IF ~(other.vault_ids \subseteq self.vault_ids) THEN "VaultRemoved"
             ELSE IF ~(other.lazy_map_ids \subseteq self.lazy_map_ids)
             THEN "LazyMapRemoved" ELSE "Ok",
     vault_ids |-> self.vault_ids \ other.vault_ids,
     lazy_map_ids |-> self.lazy_map_ids \ other.lazy_map_ids]

\* ComponentObjectRefs::extend
ComponentObjectRefs_extend(self, other) ==
    [vault_ids |-> self.vault_ids \cup other.vault_ids,
     lazy_map_ids |-> self.lazy_map_ids \cup other.lazy_map_ids]

\* a take that leaves the named objects with the frame
ComponentObjects_take_copying(f, refs) ==
    IF ~(refs.vault_ids \subseteq DOMAIN f.owned_vaults)
    THEN [err |-> "VaultNotFound", frame |-> f, vaults |-> EmptyMap, lazy_maps |-> EmptyMap]
    ELSE IF ~(refs.lazy_map_ids \subseteq DOMAIN f.owned_lazy_maps)
    THEN [err |-> "LazyMapNotFound", frame |-> f, vaults |-> EmptyMap, lazy_maps |-> EmptyMap]
    ELSE [err |-> "Ok", frame |-> f,
          vaults |-> [v \in refs.vault_ids |-> f.owned_vaults[v]],
          lazy_maps |-> [m \in refs.lazy_map_ids |-> f.owned_lazy_maps[m]]]

\* ComponentObjects::take: the named objects leave the frame's owned
\* objects: [err, frame, vaults, lazy_maps]
ComponentObjects_take(f, refs) ==
    IF ~(refs.vault_ids \subseteq DOMAIN f.owned_vaults)
    THEN [err |-> "VaultNotFound", frame |-> f, vaults |-> EmptyMap, lazy_maps |-> EmptyMap]
    ELSE IF ~(refs.lazy_map_ids \subseteq DOMAIN f.owned_lazy_maps)
    THEN [err |-> "LazyMapNotFound", frame |-> f, vaults |-> EmptyMap, lazy_maps |-> EmptyMap]
    ELSE [err |-> "Ok",
          frame |-> [f EXCEPT
              !.owned_vaults = [v \in DOMAIN f.owned_vaults \ refs.vault_ids |->
                                    f.owned_vaults[v]],
              !.owned_lazy_maps = [m \in DOMAIN f.owned_lazy_maps \ refs.lazy_map_ids |->
                                       f.owned_lazy_maps[m]]],
          vaults |-> [v \in refs.vault_ids |-> f.owned_vaults[v]],
          lazy_maps |-> [m \in refs.lazy_map_ids |-> f.owned_lazy_maps[m]]]

\* the entries of lazy map m under component_address, as substates
EntrySubstates(component_address, m, lazy_map) ==
    [k \in {<<component_address, m, key>> : key \in DOMAIN lazy_map} |-> lazy_map[k[3]]]

\* the vaults under component_address, as substates
Vaults(component_address, vaults) ==
    [k \in {<<component_address, v>> : v \in DOMAIN vaults} |-> vaults[k[2]]]

RECURSIVE put_lazy_maps(_, _, _)
\* every entry of every lazy map of lazy_maps is put under component_address
put_lazy_maps(substates, component_address, lazy_maps) ==
    IF DOMAIN lazy_maps = {} THEN substates
    ELSE LET m == CHOOSE m \in DOMAIN lazy_maps : TRUE
         IN put_lazy_maps(Extend(substates, EntrySubstates(component_address, m, lazy_maps[m])),
                          component_address, Remove(lazy_maps, m))

RECURSIVE put_unclaimed(_, _, _)
\* Track::insert_objects_into_component, the loop over new_objects.lazy_maps
put_unclaimed(tr, component_address, lazy_maps) ==
    IF DOMAIN lazy_maps = {} THEN tr
    ELSE LET m == CHOOSE m \in DOMAIN lazy_maps : TRUE
             unclaimed == lazy_maps[m]
             put == [tr EXCEPT
                        !.substates.lazy_maps =
                            put_lazy_maps(
                                Extend(@, EntrySubstates(component_address, m, unclaimed.lazy_map)),
                                component_address, unclaimed.descendent_lazy_maps),
                        !.substates.vaults =
                            Extend(@, Vaults(component_address, unclaimed.descendent_vaults))]
         IN put_unclaimed(put, component_address, Remove(lazy_maps, m))

\* Track::insert_objects_into_component
insert_objects_into_component(tr, new_objects, component_address) ==
    put_unclaimed([tr EXCEPT !.substates.vaults =
                                 Extend(@, Vaults(component_address, new_objects.vaults))],
                  component_address, new_objects.lazy_maps)

handle_create_component(w, state) ==
    IF Cur(w).wasm = "None" THEN Fail(w, "IllegalSystemCall")
    ELSE LET data == process_entry_data(state)
             new_objects == ComponentObjects_take(Cur(w), data)
         IN IF data.err # "Ok" THEN Fail(w, data.err)
            ELSE IF new_objects.err # "Ok" THEN Fail(w, new_objects.err)
            ELSE LET created == [w.track EXCEPT !.substates.components =
                                     Insert(@, NewComponentAddress, state)]
                 IN Ok([frames |-> [w.frames EXCEPT ![Top(w)] = new_objects.frame],
                        track |-> insert_objects_into_component(
                                      created, new_objects, NewComponentAddress)])

\* a read of the component's state as the Track holds it
handle_get_component_state_persisted(w) ==
    IF Cur(w).wasm # "Component" THEN Fail(w, "IllegalSystemCall")
    ELSE [frames |-> w.frames, track |-> w.track, err |-> "Ok",
          state |-> w.track.substates.components[Cur(w).component_address]]

\* handle_get_component_state: the state of InterpreterState::Component, which
\* is the state the component had when the frame was entered
handle_get_component_state(w) ==
    IF Cur(w).wasm # "Component" THEN Fail(w, "IllegalSystemCall")
    ELSE [frames |-> w.frames, track |-> w.track, err |-> "Ok", state |-> Cur(w).state]

\* a put that does not ask the new state to name the ids the frame loaded
handle_put_component_state_unchecked(w, state) ==
    IF Cur(w).wasm # "Component" THEN Fail(w, "IllegalSystemCall")
    ELSE LET data == process_entry_data(state)
             loaded == Cur(w).initial_loaded_object_refs
             new_set == [err |-> "Ok",
                         vault_ids |-> data.vault_ids \ loaded.vault_ids,
                         lazy_map_ids |-> data.lazy_map_ids \ loaded.lazy_map_ids]
             new_objects == ComponentObjects_take(Cur(w), new_set)
             component_address == Cur(w).component_address
         IN IF data.err # "Ok" THEN Fail(w, data.err)
            ELSE IF new_objects.err # "Ok" THEN Fail(w, new_objects.err)
            ELSE LET inserted == insert_objects_into_component(
                                     w.track, new_objects, component_address)
                 IN Ok([frames |-> [w.frames EXCEPT ![Top(w)] = new_objects.frame],
                        track |-> [inserted EXCEPT
                                       !.substates.components[component_address] = state]])

handle_put_component_state(w, state) ==
    IF Cur(w).wasm # "Component" THEN Fail(w, "IllegalSystemCall")
    ELSE LET data == process_entry_data(state)
             new_set == ComponentObjectRefs_remove(data, Cur(w).initial_loaded_object_refs)
             new_objects == ComponentObjects_take(Cur(w), new_set)
             component_address == Cur(w).component_address
         IN IF data.err # "Ok" THEN Fail(w, data.err)
            ELSE IF new_set.err # "Ok" THEN Fail(w, new_set.err)
            ELSE IF new_objects.err # "Ok" THEN Fail(w, new_objects.err)
            ELSE LET inserted == insert_objects_into_component(
                                     w.track, new_objects, component_address)
                 IN Ok([frames |-> [w.frames EXCEPT ![Top(w)] = new_objects.frame],
                        track |-> [inserted EXCEPT
                                       !.substates.components[component_address] = state]])

\* the lazy maps the frame created of which lazy_map_id is one or a descendent
LazyMapRoots(f, lazy_map_id) ==
    {m \in DOMAIN f.owned_lazy_maps :
         \/ m = lazy_map_id
         \/ lazy_map_id \in DOMAIN f.owned_lazy_maps[m].descendent_lazy_maps}

\* Option: <<>> is None, <<v>> is Some(v)
Get(map, key) == IF key \in DOMAIN map THEN <<map[key]>> ELSE <<>>

\* ComponentObjects::get_lazy_map_entry: [found, root, value]
ComponentObjects_get_lazy_map_entry(f, lazy_map_id, key) ==
    IF LazyMapRoots(f, lazy_map_id) = {}
    THEN [found |-> FALSE, root |-> lazy_map_id, value |-> <<>>]
    ELSE LET root == CHOOSE m \in LazyMapRoots(f, lazy_map_id) : TRUE
             unclaimed == f.owned_lazy_maps[root]
         IN [found |-> TRUE, root |-> root,
             value |-> IF root = lazy_map_id THEN Get(unclaimed.lazy_map, key)
                       ELSE Get(unclaimed.descendent_lazy_maps[lazy_map_id], key)]

\* ComponentObjects::insert_lazy_map_entry
ComponentObjects_insert_lazy_map_entry(f, lazy_map_id, key, value) ==
    LET root == CHOOSE m \in LazyMapRoots(f, lazy_map_id) : TRUE
    IN IF root = lazy_map_id
       THEN [f EXCEPT !.owned_lazy_maps[root].lazy_map = Insert(@, key, value)]
       ELSE [f EXCEPT !.owned_lazy_maps[root].descendent_lazy_maps[lazy_map_id] =
                          Insert(@, key, value)]

RECURSIVE insert_map_descendents(_, _)
\* UnclaimedLazyMap::insert_map_descendent, for every lazy map of lazy_maps
insert_map_descendents(unclaimed, lazy_maps) ==
    IF DOMAIN lazy_maps = {} THEN unclaimed
    ELSE LET m == CHOOSE m \in DOMAIN lazy_maps : TRUE
             child == lazy_maps[m]
         IN insert_map_descendents(
                [unclaimed EXCEPT
                     !.descendent_lazy_maps =
                         Extend(Insert(@, m, child.lazy_map), child.descendent_lazy_maps),
                     !.descendent_vaults = Extend(@, child.descendent_vaults)],
                Remove(lazy_maps, m))

\* ComponentObjects::insert_objects_into_map
insert_objects_into_map(f, new_objects, root) ==
    [f EXCEPT !.owned_lazy_maps[root] =
        insert_map_descendents([@ EXCEPT !.descendent_vaults =
                                             Extend(@, new_objects.vaults)],
                               new_objects.lazy_maps)]

\* Track::get_lazy_map_entry
Track_get_lazy_map_entry(tr, component_address, lazy_map_id, key) ==
    Get(tr.substates.lazy_maps, <<component_address, lazy_map_id, key>>)

\* a refs check that lets every lazy map id through
lazy_map_state_any(f, lazy_map_id) == "Ok"

\* the refs check on a lazy map the frame did not create
lazy_map_state(f, lazy_map_id) ==
    IF f.wasm = "Component"
       /\ \/ lazy_map_id \in f.initial_loaded_object_refs.lazy_map_ids
          \/ lazy_map_id \in f.additional_object_refs.lazy_map_ids
    THEN "Ok" ELSE "LazyMapNotFound"

handle_get_lazy_map_entry(w, lazy_map_id, key) ==
    LET f == Cur(w)
        owned == ComponentObjects_get_lazy_map_entry(f, lazy_map_id, key)
        value == Track_get_lazy_map_entry(w.track, f.component_address, lazy_map_id, key)
    IN IF f.wasm = "None" THEN Fail(w, "IllegalSystemCall")
       ELSE IF owned.found THEN Ok(w)
       ELSE IF lazy_map_state(f, lazy_map_id) # "Ok"
       THEN Fail(w, lazy_map_state(f, lazy_map_id))
       ELSE IF value = <<>> THEN Ok(w)
       ELSE Ok([w EXCEPT !.frames[Top(w)].additional_object_refs =
                             ComponentObjectRefs_extend(@, process_entry_data(value[1]))])

\* a cycle check that finds no cycle
check_for_cycles_none(owned, new_entry_object_refs) == FALSE

\* handle_put_lazy_map_entry, "Check for cycles": the target map is an
\* uncommitted one and the new references name the root of its chain
check_for_cycles(owned, new_entry_object_refs) ==
    owned.found /\ owned.root \in new_entry_object_refs.lazy_map_ids

\* insert_lazy_map_entry unwraps its lookup of the target map among the
\* frame's owned maps: a target that is no longer there is a panic
handle_put_lazy_map_entry(w, lazy_map_id, key, value) ==
    LET f == Cur(w)
        owned == ComponentObjects_get_lazy_map_entry(f, lazy_map_id, key)
        old_value == IF owned.found THEN owned.value
                     ELSE Track_get_lazy_map_entry(w.track, f.component_address,
                                                   lazy_map_id, key)
        data == process_entry_data(value)
        old_entry_object_refs == IF old_value = <<>> THEN ComponentObjectRefs_new
                                 ELSE process_entry_data(old_value[1])
        new_entry_object_refs == ComponentObjectRefs_remove(data, old_entry_object_refs)
        new_objects == ComponentObjects_take(f, new_entry_object_refs)
    IN IF f.wasm = "None" THEN Fail(w, "IllegalSystemCall")
       ELSE IF ~owned.found /\ lazy_map_state(f, lazy_map_id) # "Ok"
       THEN Fail(w, lazy_map_state(f, lazy_map_id))
       ELSE IF data.err # "Ok" THEN Fail(w, data.err)
       ELSE IF new_entry_object_refs.err # "Ok" THEN Fail(w, new_entry_object_refs.err)
       ELSE IF check_for_cycles(owned, new_entry_object_refs)
       THEN Fail(w, "CyclicLazyMap")
       ELSE IF new_objects.err # "Ok" THEN Fail(w, new_objects.err)
       ELSE IF owned.found /\ LazyMapRoots(new_objects.frame, lazy_map_id) = {}
       THEN Fail(w, "panic")
       ELSE IF owned.found
       THEN Ok([w EXCEPT !.frames[Top(w)] =
                    insert_objects_into_map(
                        ComponentObjects_insert_lazy_map_entry(
                            new_objects.frame, lazy_map_id, key, value),
                        new_objects, owned.root)])
       ELSE Ok([frames |-> [w.frames EXCEPT ![Top(w)] = new_objects.frame],
                track |-> insert_objects_into_component(
                              [w.track EXCEPT !.substates.lazy_maps =
                                   Insert(@, <<f.component_address, lazy_map_id, key>>,
                                          value)],
                              new_objects, f.component_address)])

(***************************************************************************)
(* The invoke protocol: internal_call up to the start of the callee, and   *)
(* from the callee's return value to the caller.                           *)
(***************************************************************************)
\* run(): the interpreter state the callee starts with
\* a frame of a component that is entered without reading the Track
Interpreter_unloaded(tr, f, actor) ==
    IF actor[1] = "Component"
    THEN [f EXCEPT !.wasm = "Component", !.component_address = actor[2]]
    ELSE [f EXCEPT !.wasm = "Blueprint"]

Interpreter(tr, f, actor) ==
    IF actor[1] = "Component"
    THEN [f EXCEPT !.wasm = "Component",
                   !.component_address = actor[2],
                   !.state = tr.substates.components[actor[2]],
                   !.initial_loaded_object_refs =
                       [vault_ids |-> {tr.substates.components[actor[2]].vault_ids[i] :
                                           i \in DOMAIN tr.substates.components[actor[2]].vault_ids},
                        lazy_map_ids |-> {tr.substates.components[actor[2]].lazy_map_ids[i] :
                                              i \in DOMAIN tr.substates.components[actor[2]].lazy_map_ids}]]
    ELSE [f EXCEPT !.wasm = "Blueprint"]

\* a value without identifiers in it
from_value(value) ==
    [bucket_ids |-> <<>>, proof_ids |-> <<>>, vault_ids |-> <<>>,
     lazy_map_ids |-> <<>>, value |-> value]

\* a target (a Scrypto actor, or <<"Resource", address>>, <<"Bucket", id>>,
\* <<"Vault", id>>), a function name and an argument
Invocation(snode_ref, function, arg) ==
    [snode_ref |-> snode_ref, function |-> function, arg |-> arg]

\* Component::method_authorization: of the account's methods, "withdraw"
\* needs a proof of R1; every other method is public
method_authorization(component_address, function) ==
    IF component_address = AccountAddress /\ function = "withdraw"
    THEN Protected("R1") ELSE Public

\* Track::get_resource_method_auth: [err, method_auth]
get_resource_method_auth(tr, resource_address, function) ==
    IF resource_address \notin DOMAIN tr.substates.resource_managers
    THEN [err |-> "ResourceManagerNotFound", method_auth |-> Public]
    ELSE [err |-> "Ok",
          method_auth |-> tr.substates.resource_managers[resource_address][function]]

\* MethodAuthorization::check: a protected method needs a proof of its
\* resource in one of the auth zones it is given
MethodAuthorization_check(method_auth, proofs) ==
    IF method_auth = Public THEN "Ok"
    ELSE IF \E i \in DOMAIN proofs : \E j \in DOMAIN proofs[i] :
                proofs[i][j].resource_def_id = method_auth[2]
    THEN "Ok" ELSE "AuthorizationError"

\* the auth zone of the calling frame; the root has an empty one
caller_auth_zone(w) ==
    IF Top(w) > 1 THEN w.frames[Top(w) - 1].auth_zone ELSE <<>>

\* internal_call, authorization and state load: [err, w, method_auth]
snode_state(w, invocation) ==
    LET snode_ref == invocation.snode_ref
        kind == snode_ref[1]
        resolved(found, resource_address, w1) ==
            LET auth == get_resource_method_auth(w.track, resource_address,
                                                 invocation.function)
            IN IF found # "Ok" THEN [err |-> found, w |-> w, method_auth |-> Public]
               ELSE IF auth.err # "Ok"
               THEN [err |-> auth.err, w |-> w1, method_auth |-> Public]
               ELSE [err |-> "Ok", w |-> w1, method_auth |-> auth.method_auth]
    IN IF kind = "Blueprint" THEN [err |-> "Ok", w |-> w, method_auth |-> Public]
       ELSE IF kind = "Component"
       THEN IF snode_ref[2] \notin DOMAIN w.track.substates.components
            THEN [err |-> "ComponentNotFound", w |-> w, method_auth |-> Public]
            ELSE [err |-> "Ok", w |-> w,
                  method_auth |-> method_authorization(snode_ref[2], invocation.function)]
       ELSE IF kind = "Resource" THEN resolved("Ok", snode_ref[2], w)
       ELSE IF kind = "Bucket"
       THEN IF snode_ref[2] \notin DOMAIN Cur(w).buckets
            THEN resolved("BucketNotFound", "None", w)
            ELSE resolved("Ok", Cur(w).buckets[snode_ref[2]].resource_def_id,
                          [w EXCEPT !.frames[Top(w)].buckets = Remove(@, snode_ref[2])])
       ELSE LET local == get_local_vault(w, snode_ref[2])
            IN IF local.err # "Ok" THEN resolved(local.err, "None", w)
               ELSE resolved("Ok", LocalVault(w, local, snode_ref[2]).resource_def_id, w)

\* internal_call, authorization check: the proofs the predicate is evaluated
\* against
proofs_vector(w, snode_ref) ==
    IF snode_ref[1] \in {"Vault", "Bucket"}
    THEN <<caller_auth_zone(w), Cur(w).auth_zone>>
    ELSE <<Cur(w).auth_zone>>

\* internal_call; a Scrypto target is followed up to the first guest step
internal_call(w, invocation, force) ==
    LET arg == invocation.arg
        snode_ref == invocation.snode_ref
        data == process_call_data(arg)
        sb == send_buckets(Cur(w).buckets, arg.bucket_ids, EmptyMap)
        w1 == [w EXCEPT !.frames[Top(w)].buckets = sb.buckets]
        sp == send_proofs(Cur(w).proofs, arg.proof_ids, "AsArgument", EmptyMap)
        w2 == [w1 EXCEPT !.frames[Top(w)].proofs = sp.proofs]
        snode == snode_state(w2, invocation)
        authorized == IF force THEN "Ok"
                      ELSE MethodAuthorization_check(snode.method_auth,
                                                     proofs_vector(snode.w, snode_ref))
        process == receive_proofs(
                       receive_buckets(Process_new(Cur(w).depth + 1), sb.moving).frame,
                       sp.moving, <<>>)
    IN IF data # "Ok" THEN Fail(w, data)
       ELSE IF sb.err # "Ok" THEN Fail(w1, sb.err)
       ELSE IF sp.err # "Ok" THEN Fail(w2, sp.err)
       ELSE IF snode.err # "Ok" THEN Fail(snode.w, snode.err)
       ELSE IF authorized # "Ok" THEN Fail(snode.w, authorized)
       ELSE IF snode_ref[1] = "Vault" THEN Vault_main(snode.w, snode_ref[2], invocation.function, arg.value)
       ELSE IF snode_ref[1] = "Bucket"
       THEN IF invocation.function = "burn"
            THEN Ok([snode.w EXCEPT !.track = Bucket_drop(@, Cur(w2).buckets[snode_ref[2]])])
            ELSE Fail(snode.w, "IllegalSystemCall")
       ELSE IF snode_ref[1] = "Resource"
       THEN run_resource_mint(snode.w, snode_ref[2], arg.value)
       ELSE Ok([snode.w EXCEPT !.frames = Append(@, Interpreter(w.track, process, snode_ref))])

call(w, invocation) == internal_call(w, invocation, FALSE)

\* Worktop::take_all: the whole container of a resource leaves the worktop
Worktop_take_all(worktop, resource_address) ==
    [worktop |-> Remove(worktop, resource_address), taken |-> worktop[resource_address]]

\* call_method_with_all_resources, step 2: every resource of the worktop is
\* moved into a bucket named by Track::new_bucket_id, in the order of
\* Worktop::resource_addresses
RECURSIVE worktop_to_buckets(_, _)
worktop_to_buckets(w, order) ==
    IF order = <<>> THEN w
    ELSE LET res == Worktop_take_all(Cur(w).worktop, Head(order))
             bucket_id == <<"Application", w.track.next_id + 1>>
         IN worktop_to_buckets(
                [w EXCEPT !.track.next_id = @ + 1,
                          !.frames[Top(w)].worktop = res.worktop,
                          !.frames[Top(w)].buckets = Insert(@, bucket_id, res.taken)],
                Tail(order))

\* the ids the transaction executor names the signers' bucket and proof with:
\* they belong to the System space, which neither allocator hands out
VirtualBucketId == <<"System", 0>>
VirtualProofId == <<"System", 1>>

\* Process::create_virtual_proof: a proof of a bucket that no frame holds is
\* inserted under the proof id the caller names
create_virtual_proof(w, bucket_id, proof_id, bucket) ==
    Ok([w EXCEPT !.frames[Top(w)].proofs =
            Insert(@, proof_id,
                   Container_create_proof(bucket, <<"Bucket", bucket_id>>).proof)])

\* Process::call_method_with_all_resources: the proofs are dropped, the worktop
\* is moved into buckets, and the method is called with every bucket of the
\* frame (to_deposit lists them in the order of the map's keys)
call_method_with_all_resources(w, component_address, method, order, to_deposit) ==
    LET moved == worktop_to_buckets(drop_all_proofs(w), order)
    IN call(moved, Invocation(<<"Component", component_address>>, method,
                              ScryptoValue(to_deposit, <<>>, <<>>, <<>>)))

handle_mint_resource(w, resource_address, amount) ==
    call(w, Invocation(<<"Resource", resource_address>>, "mint", from_value(amount)))

\* handle_create_resource: the new resource manager is stored, and the
\* initial supply, if any, is minted by a call that skips the authorization
\* check
handle_create_resource(w, authorization, mint_params) ==
    LET created == [w EXCEPT !.track.substates.resource_managers =
                                 Insert(@, NewResourceAddress, authorization),
                             !.track.substates.total_supply =
                                 Insert(@, NewResourceAddress, 0)]
    IN IF mint_params = <<>> THEN Ok(created)
       ELSE internal_call(created,
                          Invocation(<<"Resource", NewResourceAddress>>, "mint",
                                     from_value(mint_params[1])),
                          TRUE)

handle_burn_resource(w, bucket_id) ==
    call(w, Invocation(<<"Bucket", bucket_id>>, "burn", from_value(0)))

handle_take_from_vault(w, vault_id, amount) ==
    call(w, Invocation(<<"Vault", vault_id>>, "take_from_vault", from_value(amount)))

handle_take_non_fungibles_from_vault(w, vault_id, non_fungible_ids) ==
    call(w, Invocation(<<"Vault", vault_id>>, "take_non_fungibles_from_vault",
                       from_value(non_fungible_ids)))

\* the end of run() and of internal_call: the callee returned result; order
\* is the order in which the caller's receive_proofs iterates over the
\* proofs that move
internal_call_return(w, result, order) ==
    LET data == process_return_data(result)
        sb == send_buckets(Cur(w).buckets, result.bucket_ids, EmptyMap)
        w1 == [w EXCEPT !.frames[Top(w)].buckets = sb.buckets]
        sp == send_proofs(Cur(w).proofs, result.proof_ids, "AsReturn", EmptyMap)
        w2 == [w1 EXCEPT !.frames[Top(w)].proofs = sp.proofs]
        w3 == drop_all_proofs(w2)
        checked == check_resource(Cur(w3))
        caller == w3.frames[Top(w) - 1]
        received == receive_buckets(caller, sb.moving)
        back == SubSeq(w3.frames, 1, Top(w) - 2)
    IN IF data # "Ok" THEN Fail(w, data)
       ELSE IF sb.err # "Ok" THEN Fail(w1, sb.err)
       ELSE IF sp.err # "Ok" THEN Fail(w2, sp.err)
       ELSE IF checked # "Ok" THEN Fail(w3, checked)
       ELSE IF received.err # "Ok"
       THEN Fail([w3 EXCEPT !.frames = Append(back, caller)], received.err)
       ELSE Ok([w3 EXCEPT !.frames =
                    Append(back, receive_proofs(received.frame, sp.moving, order))])

\* AuthZone::main, AuthZoneMethod::Push: the proof that arrived as the
\* argument is taken, changed to unrestricted and pushed
auth_zone_main_push(auth_zone, proofs, proof_id) ==
    IF proof_id \notin DOMAIN proofs THEN [err |-> "CouldNotGetProof", auth_zone |-> auth_zone]
    ELSE [err |-> "Ok",
          auth_zone |-> Append(auth_zone, [proofs[proof_id] EXCEPT !.restricted = FALSE])]

\* a call on the frame's own auth zone with method Push(proof_id)
auth_zone_invoke_push(w, proof_id) ==
    LET sp == send_proofs(Cur(w).proofs, <<proof_id>>, "AsArgument", EmptyMap)
        w1 == [w EXCEPT !.frames[Top(w)].proofs = sp.proofs]
        res == auth_zone_main_push(Cur(w).auth_zone, sp.moving, proof_id)
    IN IF sp.err # "Ok" THEN Fail(w1, sp.err)
       ELSE IF res.err # "Ok" THEN Fail(w1, res.err)
       ELSE Ok([w1 EXCEPT !.frames[Top(w)].auth_zone = res.auth_zone])

(***************************************************************************)
(* The end of the transaction.                                             *)
(***************************************************************************)
\* finalize: the root frame must hold no proof, no bucket, no resource
finalize(w) ==
    IF DOMAIN Cur(w).proofs # {} THEN Fail(w, "ResourceCheckFailure")
    ELSE IF check_resource(Cur(w)) # "Ok" THEN Fail(w, check_resource(Cur(w)))
    ELSE Ok(w)

\* Track::commit: the buffered substates are written to the store
Track_commit(tr, st) == tr.substates

\* a driver that commits whatever the result
handle_mint_always_commit(result, tr, st) == Track_commit(tr, st)

\* the transaction driver: an error returns before the commit
handle_mint(result, tr, st) ==
    IF result = "Ok" THEN Track_commit(tr, st) ELSE st

(***************************************************************************)
(* RadixEngineScryptoRuntime: the host calls of a guest and its metering.  *)
(* tbd_limit, tbd_balance and every charge are u32 values; use_tbd         *)
(* subtracts only what the balance holds, so no operation on them wraps.   *)
(***************************************************************************)
tbd_used(f) == f.tbd_limit - f.tbd_balance

\* a charge that is deducted as far as the balance goes and never fails
use_tbd_saturating(w, tbd) ==
    Ok([w EXCEPT !.frames[Top(w)].tbd_balance = IF @ >= tbd THEN @ - tbd ELSE 0])

\* use_tbd: the charge is deducted if the balance holds it; otherwise the
\* balance is set to zero and the call fails OutOfTbd
use_tbd(w, tbd) ==
    IF Cur(w).tbd_balance >= tbd
    THEN Ok([w EXCEPT !.frames[Top(w)].tbd_balance = @ - tbd])
    ELSE Fail([w EXCEPT !.frames[Top(w)].tbd_balance = 0], "OutOfTbd")

\* ScryptoRuntime::main: the handler of the input runs; input is the name of
\* a RadixEngineInput followed by its fields
main(w, input) ==
    IF input[1] = "InvokeSNode" THEN call(w, input[2])
    ELSE IF input[1] = "CreateComponent" THEN handle_create_component(w, input[2])
    ELSE IF input[1] = "GetComponentState" THEN handle_get_component_state(w)
    ELSE IF input[1] = "PutComponentState" THEN handle_put_component_state(w, input[2])
    ELSE IF input[1] = "CreateLazyMap" THEN handle_create_lazy_map(w)
    ELSE IF input[1] = "GetLazyMapEntry"
    THEN handle_get_lazy_map_entry(w, input[2], input[3])
    ELSE IF input[1] = "PutLazyMapEntry"
    THEN handle_put_lazy_map_entry(w, input[2], input[3], input[4])
    ELSE Ok(w)

(***************************************************************************)
(* The state machine.                                                      *)
(***************************************************************************)
TakeAmounts == 0..MaxTake
MintAmounts == 1..MaxMint
\* the targets of a call: a blueprint function, a method of the account
Actors == {<<"Blueprint">>, <<"Component", AccountAddress>>}
\* the same, and a method of the component the transaction creates
ObjectActors == Actors \cup {<<"Component", NewComponentAddress>>}
\* the functions and methods a call names
Functions == {"deposit", "withdraw"}
\* the authorization a resource is created with: every method public, or a
\* mint that needs a proof of R1
Authorizations ==
    {[mint |-> m, burn |-> Public, take_from_vault |-> Public,
      take_non_fungibles_from_vault |-> Public] :
         m \in {Public, Protected("R1")}}
\* the initial supply a resource is created with: none, or an amount
MintParams == ArgSeqs(MintAmounts)
\* the resources a vault is created for
VaultResources == {"R1"}
\* call arguments and return values: one bucket, one proof or one vault at most
Values == {ScryptoValue(b, <<>>, <<>>, <<>>) : b \in ArgSeqs(Ids)}
          \cup {ScryptoValue(<<>>, p, <<>>, <<>>) : p \in ArgSeqs(Ids)}
          \cup {ScryptoValue(<<>>, <<>>, <<PersistedVault>>, <<>>)}
\* component states: at most one vault, one lazy map
States == {ScryptoValue(<<>>, <<>>, v, m) :
               v \in ArgSeqs(NewVaultIds), m \in ArgSeqs(LazyMapIds)}

\* one or two identifiers, the same one twice included
Pairs(S) == {<<x>> : x \in S} \cup {<<x, y>> : x \in S, y \in S}
\* the keys of lazy map entries
Keys == {"k1"}
\* component states and lazy map entries: vault ids and lazy map ids, or one
\* bucket id, or one proof id
EntryValues == {ScryptoValue(<<>>, <<>>, v, m) :
                 v \in {<<>>} \cup Pairs(VaultIds), m \in {<<>>} \cup Pairs(AllLazyMapIds)}
            \cup {ScryptoValue(<<id>>, <<>>, <<>>, <<>>) : id \in Ids}
            \cup {ScryptoValue(<<>>, <<id>>, <<>>, <<>>) : id \in Ids}

\* the charges of a guest
Charges == 0..MaxCharge
\* the host calls of a guest
RadixEngineInputs ==
    {<<"InvokeSNode", Invocation(actor, function, EmptyValue)>> :
         actor \in Actors, function \in Functions}
    \cup {<<"CreateComponent", state>> : state \in States}
    \cup {<<"PutComponentState", state>> : state \in States}
    \cup {<<"PutLazyMapEntry", lazy_map_id, key, EmptyValue>> :
              lazy_map_id \in LazyMapIds, key \in Keys}
    \cup {<<"GetLazyMapEntry", lazy_map_id, key>> : lazy_map_id \in LazyMapIds, key \in Keys}
    \cup {<<"GetComponentState">>, <<"CreateLazyMap">>, <<"GetActor">>, <<"EmitLog">>}

\* amounts of D1 a guest asks for: multiples of its granularity (a negative
\* one and one above the supply among them) and amounts that are no multiple
Quantities ==
    {n * Granularity(CoarseDivisibility) : n \in {-1, 0, 3, 5, CoarseSupply, CoarseSupply + 1}}
    \cup {-1, 1}
\* amounts of D1 a guest mints: up to and above the largest amount of a mint,
\* and amounts that are no multiple of the granularity
MintQuantities ==
    {0, 1, Granularity(CoarseDivisibility), MaxMintAmount,
     MaxMintAmount + Granularity(CoarseDivisibility)}

\* return values with two proofs
ProofPairs == {ScryptoValue(<<>>, ids, <<>>, <<>>) :
                   ids \in {<<p, q>> : p \in ApplicationIds, q \in ApplicationIds} \
                           {<<p, p>> : p \in ApplicationIds}}

\* the hashes of the transactions, and the addresses a write names
TxHashes == {"h1", "h2"}
Addresses == {"component", "vault", "entry"}

\* SubstateIdGenerator::new
SubstateIdGenerator_new(tx_hash) == [tx_hash |-> tx_hash, count |-> 0]

\* a generator that hands out its counter without advancing it
SubstateIdGenerator_next_same(self) ==
    [self |-> self, phys_id |-> <<self.tx_hash, self.count>>]

\* SubstateIdGenerator::next: the id is the hash and the counter, and the
\* counter advances by one
SubstateIdGenerator_next(self) ==
    [self |-> [self EXCEPT !.count = @ + 1],
     phys_id |-> <<self.tx_hash, self.count>>]

\* the ledger part of a transaction before its first write
(***************************************************************************)
(* model/vault.rs: a bucket guarded by an authority.  Bucket and Actor are *)
(* not in the sources: a bucket is its resource address, its amount and    *)
(* its non-fungible keys, an actor is the set of authorities it satisfies. *)
(***************************************************************************)
Authorities == {"A1", "A2"}
NonFungibleKeys == {1, 2}
VaultActors == {[authorities |-> S] : S \in SUBSET Authorities}
VaultBuckets ==
    {[resource_address |-> r, amount |-> a, keys |-> {}] :
         r \in Resources, a \in 0..MaxVaultAmount}
    \cup {[resource_address |-> "N1", amount |-> Cardinality(k), keys |-> k] :
              k \in SUBSET NonFungibleKeys}

Actor_check(actor, authority) == authority \in actor.authorities

Bucket_put(self, other) ==
    IF other.resource_address # self.resource_address
    THEN [err |-> "AccountingError", bucket |-> self]
    ELSE [err |-> "Ok",
          bucket |-> [self EXCEPT !.amount = @ + other.amount,
                                  !.keys = @ \cup other.keys]]

Bucket_take(self, amount) ==
    IF self.amount < amount \/ self.keys # {}
    THEN [err |-> "AccountingError", bucket |-> self, out |-> self]
    ELSE [err |-> "Ok", bucket |-> [self EXCEPT !.amount = @ - amount],
          out |-> [self EXCEPT !.amount = amount]]

Bucket_take_non_fungible(self, key) ==
    IF key \notin self.keys
    THEN [err |-> "AccountingError", bucket |-> self, out |-> self]
    ELSE [err |-> "Ok",
          bucket |-> [self EXCEPT !.amount = @ - 1, !.keys = @ \ {key}],
          out |-> [self EXCEPT !.amount = 1, !.keys = {key}]]

Vault_new(bucket, authority) == [bucket |-> bucket, authority |-> authority]

\* a vault operation returns [err, vault, out]
NoOutput == [none |-> TRUE]
Unauthorized(self) == [err |-> "UnauthorizedAccess", vault |-> self, out |-> NoOutput]

Vault_put(self, other, actor) ==
    IF Actor_check(actor, self.authority)
    THEN LET res == Bucket_put(self.bucket, other)
         IN [err |-> res.err, vault |-> [self EXCEPT !.bucket = res.bucket], out |-> NoOutput]
    ELSE Unauthorized(self)

\* a take that does not ask who the actor is
Vault_take_unchecked(self, amount, actor) ==
    LET res == Bucket_take(self.bucket, amount)
    IN [err |-> res.err, vault |-> [self EXCEPT !.bucket = res.bucket], out |-> [bucket |-> res.out]]

Vault_take(self, amount, actor) ==
    IF Actor_check(actor, self.authority)
    THEN LET res == Bucket_take(self.bucket, amount)
         IN [err |-> res.err, vault |-> [self EXCEPT !.bucket = res.bucket], out |-> [bucket |-> res.out]]
    ELSE Unauthorized(self)

Vault_take_non_fungible(self, key, actor) ==
    IF Actor_check(actor, self.authority)
    THEN LET res == Bucket_take_non_fungible(self.bucket, key)
         IN [err |-> res.err, vault |-> [self EXCEPT !.bucket = res.bucket], out |-> [bucket |-> res.out]]
    ELSE Unauthorized(self)

Vault_get_non_fungible_ids(self, actor) ==
    IF Actor_check(actor, self.authority)
    THEN IF self.bucket.resource_address \notin NonFungibleResources
         THEN [err |-> "AccountingError", vault |-> self, out |-> NoOutput]
         ELSE [err |-> "Ok", vault |-> self, out |-> [ids |-> self.bucket.keys]]
    ELSE Unauthorized(self)

Vault_total_supply(self, actor) ==
    IF Actor_check(actor, self.authority)
    THEN [err |-> "Ok", vault |-> self,
          out |-> IF self.bucket.resource_address \in NonFungibleResources
                  THEN [ids |-> self.bucket.keys] ELSE [amount |-> self.bucket.amount]]
    ELSE Unauthorized(self)

Vault_amount(self, actor) ==
    IF Actor_check(actor, self.authority)
    THEN [err |-> "Ok", vault |-> self, out |-> [amount |-> self.bucket.amount]]
    ELSE Unauthorized(self)

Vault_resource_address(self, actor) ==
    IF Actor_check(actor, self.authority)
    THEN [err |-> "Ok", vault |-> self, out |-> [address |-> self.bucket.resource_address]]
    ELSE Unauthorized(self)

(***************************************************************************)
(* Guest memory and the return value of a guest call.                      *)
(***************************************************************************)
\* the largest word (u32::MAX)
WordMax == ByteBase ^ WordBytes - 1

\* u32::checked_add: [ok, value]
checked_add(a, b) ==
    IF a + b > WordMax THEN [ok |-> FALSE, value |-> 0] ELSE [ok |-> TRUE, value |-> a + b]

RECURSIVE from_le_bytes(_)
\* u32::from_le_bytes: the first byte is the least significant
from_le_bytes(bytes) ==
    IF bytes = <<>> THEN 0 ELSE Head(bytes) + ByteBase * from_le_bytes(Tail(bytes))

\* MemoryRef::get_value::<u32>(ptr): [ok, value]; memory[i + 1] is the byte
\* at address i
Memory_get_value(memory, ptr) ==
    IF ptr + WordBytes > Len(memory) THEN [ok |-> FALSE, value |-> 0]
    ELSE [ok |-> TRUE, value |-> from_le_bytes(SubSeq(memory, ptr + 1, ptr + WordBytes))]

\* ScryptoValue::from_slice: an empty slice and a slice that does not start
\* with a type id are not an encoded value
ScryptoValue_from_slice(slice) ==
    IF slice = <<>> \/ Head(slice) = 0
    THEN [err |-> "ParseScryptoValueError", raw |-> <<>>]
    ELSE [err |-> "Ok", raw |-> slice]

\* Process::read_return_value: [err, start, end, raw]; start..end is the
\* range of addresses the slice is taken from, raw the bytes of the value.
\* buffer.len().try_into().unwrap() panics when the length of the memory is
\* not a word.
read_return_value(memory, ptr) ==
    LET len == Memory_get_value(memory, ptr)
        start == checked_add(ptr, WordBytes)
        end == checked_add(start.value, len.value)
        none == [start |-> 0, end |-> 0, raw |-> <<>>]
    IN IF ~len.ok THEN [err |-> "MemoryAccessError"] @@ none
       ELSE IF ~start.ok THEN [err |-> "MemoryAccessError"] @@ none
       ELSE IF ~end.ok THEN [err |-> "MemoryAccessError"] @@ none
       ELSE IF Len(memory) > WordMax THEN [err |-> "panic"] @@ none
       ELSE IF end.value > Len(memory) THEN [err |-> "MemoryAccessError"] @@ none
       ELSE LET value == ScryptoValue_from_slice(
                             SubSeq(memory, start.value + 1, end.value))
            IN [err |-> value.err, start |-> start.value, end |-> end.value,
                raw |-> value.raw]

NoWrites ==
    /\ id_gen = SubstateIdGenerator_new("h1") /\ writes = <<>>
    /\ vault = Vault_new([resource_address |-> "R1", amount |-> 0, keys |-> {}], "A1")
    /\ vm = [memory |-> <<>>, ptr |-> 0]

Init ==
    /\ NoWrites
    /\ store = InitialSubstates
    /\ track = Track_new(InitialSubstates)
    /\ frames = <<Process_new(0)>>
    /\ pc = "running"
    /\ err = "Ok"
    /\ op = "none"

IsRoot == pc = "running" /\ Len(frames) = 1
IsGuest == pc = "running" /\ Len(frames) > 1

\* the outcome r = [frames, track, err] of operation name
Finish(name, r) ==
    /\ op' = IF r.err = "Ok" THEN "none" ELSE name
    /\ frames' = r.frames
    /\ track' = r.track
    /\ err' = r.err
    /\ pc' = IF r.err = "Ok" THEN "running"
             ELSE IF r.err = "panic" THEN "panicked" ELSE "failed"
    /\ store' = IF r.err = "Ok" THEN store ELSE handle_mint(r.err, r.track, store)
    /\ UNCHANGED <<id_gen, writes, vault, vm>>

TakeFromWorktop ==
    /\ IsRoot /\ CanAllocate(World)
    /\ \E amount \in TakeAmounts, r \in Resources :
           Finish("take_from_worktop", take_from_worktop(World, amount, r))

ReturnToWorktop ==
    /\ IsRoot
    /\ \E bucket_id \in Ids :
           Finish("return_to_worktop", return_to_worktop(World, bucket_id))

PopFromAuthZone ==
    /\ pc = "running" /\ CanAllocate(World)
    /\ Finish("pop_from_auth_zone", pop_from_auth_zone(World))

PushToAuthZone ==
    /\ pc = "running"
    /\ \E proof_id \in Ids :
           Finish("push_to_auth_zone", push_to_auth_zone(World, proof_id))

AuthZonePush ==
    /\ pc = "running"
    /\ \E proof_id \in Ids :
           Finish("auth_zone_push", auth_zone_invoke_push(World, proof_id))

CreateBucketProof ==
    /\ pc = "running" /\ CanAllocate(World)
    /\ \E bucket_id \in Ids :
           Finish("create_bucket_proof", create_bucket_proof(World, bucket_id))

CreateVaultProof ==
    /\ IsGuest /\ CanAllocate(World)
    /\ \E vault_id \in VaultIds :
           Finish("create_vault_proof", create_vault_proof(World, vault_id))

CloneProof ==
    /\ pc = "running" /\ CanAllocate(World)
    /\ \E proof_id \in Ids :
           Finish("clone_proof", clone_proof(World, proof_id))

DropProof ==
    /\ pc = "running"
    /\ \E proof_id \in Ids :
           Finish("drop_proof", drop_proof(World, proof_id))

\* a call is followed into the callee down to depth MaxDepth; below, only
\* the calls that fail are explored
Call ==
    /\ pc = "running"
    /\ \E actor \in Actors, function \in Functions, arg \in Values :
           LET r == call(World, Invocation(actor, function, arg))
           IN /\ Len(frames) <= MaxDepth \/ r.err # "Ok"
              /\ Finish("call", r)

\* a call without buckets and proofs, the component the transaction creates
\* among its targets
CallObjects ==
    /\ pc = "running"
    /\ \E actor \in ObjectActors, function \in Functions :
           LET r == call(World, Invocation(actor, function, EmptyValue))
           IN /\ Len(frames) <= MaxDepth \/ r.err # "Ok"
              /\ Finish("call", r)

Return ==
    /\ IsGuest
    /\ \E result \in Values : \E order \in Iterations(Range(result.proof_ids)) :
           Finish("return", internal_call_return(World, result, order))

\* a call of a method of a component, made by the transaction or by a guest
\* that runs inside other calls
CallNested ==
    /\ pc = "running"
    /\ \E component_address \in {AccountAddress, NewComponentAddress} :
           LET r == call(World, Invocation(<<"Component", component_address>>,
                                           "deposit", EmptyValue))
           IN /\ Len(frames) <= MaxNesting \/ r.err # "Ok"
              /\ Finish("call", r)

CreateVault ==
    /\ IsGuest /\ track.next_vault_id < MaxVaultIds
    /\ \E r \in VaultResources :
           Finish("create_vault", handle_create_vault(World, r))

PutIntoVault ==
    /\ IsGuest
    /\ \E bucket_id \in Ids, vault_id \in VaultIds :
           Finish("put_into_vault", handle_put_into_vault(World, bucket_id, vault_id))

TakeFromVault ==
    /\ IsGuest /\ CanAllocate(World)
    /\ \E vault_id \in VaultIds, amount \in TakeAmounts :
           Finish("take_from_vault", handle_take_from_vault(World, vault_id, amount))

PutIntoBucket ==
    /\ IsGuest
    /\ \E bucket_id \in Ids, other \in Ids :
           Finish("put_into_bucket", handle_put_into_bucket(World, bucket_id, other))

TakeFromBucket ==
    /\ IsGuest /\ CanAllocate(World)
    /\ \E bucket_id \in Ids, amount \in TakeAmounts :
           Finish("take_from_bucket", handle_take_from_bucket(World, bucket_id, amount))

Mint ==
    /\ IsGuest /\ CanAllocate(World)
    /\ \E r \in Resources, amount \in MintAmounts :
           Finish("mint", handle_mint_resource(World, r, amount))

Burn ==
    /\ IsGuest
    /\ \E bucket_id \in Ids :
           Finish("burn", handle_burn_resource(World, bucket_id))

CreateResource ==
    /\ IsGuest /\ CanAllocate(World)
    /\ NewResourceAddress \notin DOMAIN track.substates.resource_managers
    /\ \E authorization \in Authorizations, mint_params \in MintParams :
           Finish("create_resource",
                  handle_create_resource(World, authorization, mint_params))

CreateLazyMap ==
    /\ IsGuest /\ track.next_lazy_map_id < MaxLazyMapIds
    /\ Finish("create_lazy_map", handle_create_lazy_map(World))

PutComponentState ==
    /\ IsGuest
    /\ \E state \in EntryValues :
           Finish("put_component_state", handle_put_component_state(World, state))

GetLazyMapEntry ==
    /\ IsGuest
    /\ \E lazy_map_id \in AllLazyMapIds, key \in Keys :
           Finish("get_lazy_map_entry", handle_get_lazy_map_entry(World, lazy_map_id, key))

PutLazyMapEntry ==
    /\ IsGuest
    /\ \E lazy_map_id \in AllLazyMapIds, key \in Keys, value \in EntryValues :
           Finish("put_lazy_map_entry",
                  handle_put_lazy_map_entry(World, lazy_map_id, key, value))

\* create_lazy_map, up to MaxLazyMaps lazy maps
CreateLazyMaps ==
    /\ IsGuest /\ track.next_lazy_map_id < MaxLazyMaps
    /\ Finish("create_lazy_map", handle_create_lazy_map(World))

CreateComponent ==
    /\ IsGuest /\ NewComponentAddress \notin DOMAIN track.substates.components
    /\ \E state \in States :
           Finish("create_component", handle_create_component(World, state))

TakeNonFungiblesFromVault ==
    /\ IsGuest /\ CanAllocate(World)
    /\ \E vault_id \in VaultIds, non_fungible_ids \in SUBSET NonFungibleIds :
           Finish("take_non_fungibles_from_vault",
                  handle_take_non_fungibles_from_vault(World, vault_id, non_fungible_ids))

TakeNonFungiblesFromBucket ==
    /\ IsGuest /\ CanAllocate(World)
    /\ \E bucket_id \in Ids, non_fungible_ids \in SUBSET NonFungibleIds :
           Finish("take_non_fungibles_from_bucket",
                  handle_take_non_fungibles_from_bucket(World, bucket_id, non_fungible_ids))

MintNonFungible ==
    /\ IsGuest /\ CanAllocate(World)
    /\ \E r \in NonFungibleResources, non_fungible_ids \in SUBSET NonFungibleIds :
           Finish("mint", handle_mint_resource(World, r, non_fungible_ids))

\* take_from_vault, take_from_bucket and mint with amounts of D1
TakeQuantityFromVault ==
    /\ IsGuest /\ CanAllocate(World)
    /\ \E vault_id \in VaultIds, amount \in Quantities :
           Finish("take_from_vault", handle_take_from_vault(World, vault_id, amount))

TakeQuantityFromBucket ==
    /\ IsGuest /\ CanAllocate(World)
    /\ \E bucket_id \in Ids, amount \in Quantities :
           Finish("take_from_bucket", handle_take_from_bucket(World, bucket_id, amount))

MintQuantity ==
    /\ IsGuest /\ CanAllocate(World)
    /\ \E r \in CoarseResources, amount \in MintQuantities :
           Finish("mint", handle_mint_resource(World, r, amount))

\* the amounts a proof by amount asks for
ProofAmounts == {n * Granularity(CoarseDivisibility) : n \in {3, 5, CoarseSupply + 1}}

\* the executor creates the signers' proof before the first instruction
CreateVirtualProof ==
    /\ IsRoot
    /\ Cur(World).id_allocator = 0 /\ track.next_id = 0
    /\ Cur(World).proofs = EmptyMap /\ Cur(World).auth_zone = <<>>
    /\ Finish("create_virtual_proof",
              create_virtual_proof(World, VirtualBucketId, VirtualProofId,
                                   new_fungible("ECDSA", 0, 1)))

CallMethodWithAllResources ==
    /\ IsRoot
    /\ track.next_id + Cardinality(DOMAIN Cur(World).worktop) <= MaxApplicationIds
    /\ \E function \in Functions : \E order \in Iterations(DOMAIN Cur(World).worktop) :
           LET moved == worktop_to_buckets(drop_all_proofs(World), order)
           IN \E to_deposit \in Iterations(DOMAIN Cur(moved).buckets) :
                  Finish("call_method_with_all_resources",
                         call_method_with_all_resources(World, AccountAddress, function,
                                                        order, to_deposit))

CreateBucketProofByAmount ==
    /\ IsGuest /\ CanAllocate(World)
    /\ \E bucket_id \in Ids, amount \in ProofAmounts :
           Finish("create_bucket_proof_by_amount",
                  create_bucket_proof_by_amount(World, bucket_id, amount))

CreateBucketProofByIds ==
    /\ IsGuest /\ CanAllocate(World)
    /\ \E bucket_id \in Ids, ids \in SUBSET NonFungibleIds :
           Finish("create_bucket_proof_by_ids",
                  create_bucket_proof_by_ids(World, bucket_id, ids))

\* a charge of the instrumented code of the guest
UseTbd ==
    /\ IsGuest
    /\ \E tbd \in Charges : Finish("use_tbd", use_tbd(World, tbd))

\* a host call of the guest; calls are followed down to depth MaxDepth and
\* at most MaxLazyMapIds lazy maps are created
HostCall ==
    /\ IsGuest
    /\ \E input \in RadixEngineInputs :
           LET r == main(World, input)
           IN /\ input[1] = "InvokeSNode" => r.err # "Ok" \/ Len(frames) <= MaxDepth
              /\ input[1] = "CreateLazyMap" => track.next_lazy_map_id < MaxLazyMapIds
              /\ input[1] = "CreateComponent" =>
                     NewComponentAddress \notin DOMAIN track.substates.components
              /\ Finish("main", r)

\* a return of two proofs
ReturnProofs ==
    /\ IsGuest
    /\ \E result \in ProofPairs : \E order \in Iterations(Range(result.proof_ids)) :
           Finish("return", internal_call_return(World, result, order))

\* the driver after the last instruction: finalize, then commit
Finalize ==
    /\ IsRoot
    /\ LET r == finalize(World)
       IN /\ op' = "finalize"
          /\ frames' = r.frames
          /\ track' = r.track
          /\ err' = r.err
          /\ pc' = IF r.err = "Ok" THEN "committed" ELSE "failed"
          /\ store' = handle_mint(r.err, r.track, store)
          /\ UNCHANGED <<id_gen, writes, vault, vm>>

Next ==
    \/ TakeFromWorktop
    \/ ReturnToWorktop
    \/ PopFromAuthZone
    \/ PushToAuthZone
    \/ AuthZonePush
    \/ CreateBucketProof
    \/ CreateVaultProof
    \/ CloneProof
    \/ DropProof
    \/ Call
    \/ Return
    \/ CreateVault
    \/ PutIntoVault
    \/ TakeFromVault
    \/ PutIntoBucket
    \/ TakeFromBucket
    \/ Mint
    \/ Burn
    \/ CreateLazyMap
    \/ CreateComponent
    \/ Finalize

Spec == Init /\ [][Next]_vars

\* the transactions made of calls, proofs, auth zones and the operations on
\* resource managers, the creation of a resource included
NextAuth ==
    \/ PopFromAuthZone
    \/ PushToAuthZone
    \/ CreateVaultProof
    \/ DropProof
    \/ Call
    \/ Return
    \/ TakeFromVault
    \/ Mint
    \/ Burn
    \/ CreateResource
    \/ Finalize

SpecAuth == Init /\ [][NextAuth]_vars

\* the transactions made of calls that return proofs to the root
NextProofs ==
    \/ Call
    \/ Return
    \/ ReturnProofs
    \/ TakeFromVault
    \/ CreateBucketProof
    \/ CreateVaultProof
    \/ PopFromAuthZone
    \/ PushToAuthZone
    \/ DropProof
    \/ Finalize

SpecProofs == Init /\ [][NextProofs]_vars

\* the transactions of guests that are metered and make host calls
NextMetering ==
    \/ CallObjects
    \/ UseTbd
    \/ HostCall
    \/ Return
    \/ Finalize

SpecMetering == Init /\ [][NextMetering]_vars

\* the transactions on a ledger whose account vault holds non-fungibles
InitNonFungible ==
    /\ NoWrites
    /\ store = NonFungibleSubstates
    /\ track = Track_new(NonFungibleSubstates)
    /\ frames = <<Process_new(0)>>
    /\ pc = "running"
    /\ err = "Ok"
    /\ op = "none"

NextNonFungible ==
    \/ Call
    \/ Return
    \/ CreateBucketProof
    \/ CreateVaultProof
    \/ DropProof
    \/ PutIntoVault
    \/ TakeFromVault
    \/ TakeNonFungiblesFromVault
    \/ PutIntoBucket
    \/ TakeFromBucket
    \/ TakeNonFungiblesFromBucket
    \/ MintNonFungible
    \/ Burn
    \/ Finalize

SpecNonFungible == InitNonFungible /\ [][NextNonFungible]_vars

\* the transactions on a ledger whose account vault holds D1, with amounts
\* at and across the boundaries of the containers, and with buckets of
\* non-fungibles the guest mints
InitAmounts ==
    /\ NoWrites
    /\ store = CoarseSubstates
    /\ track = Track_new(CoarseSubstates)
    /\ frames = <<Process_new(0)>>
    /\ pc = "running"
    /\ err = "Ok"
    /\ op = "none"

NextAmounts ==
    \/ Call
    \/ Return
    \/ TakeQuantityFromVault
    \/ TakeQuantityFromBucket
    \/ PutIntoVault
    \/ PutIntoBucket
    \/ MintQuantity
    \/ MintNonFungible
    \/ Burn
    \/ CreateBucketProof
    \/ CreateBucketProofByAmount
    \/ CreateBucketProofByIds
    \/ CreateVaultProof
    \/ CloneProof
    \/ DropProof
    \/ Finalize

SpecAmounts == InitAmounts /\ [][NextAmounts]_vars

\* the operations that hand out, move and remove bucket ids and proof ids
NextIds ==
    \/ CreateVirtualProof
    \/ TakeFromWorktop
    \/ ReturnToWorktop
    \/ Call
    \/ Return
    \/ CallMethodWithAllResources
    \/ TakeFromVault
    \/ TakeFromBucket
    \/ PutIntoBucket
    \/ CreateBucketProof
    \/ CloneProof
    \/ DropProof
    \/ PopFromAuthZone
    \/ PushToAuthZone
    \/ Finalize

SpecIds == Init /\ [][NextIds]_vars

\* the transactions made of calls and of the operations on vaults, lazy maps
\* and component states
NextObjects ==
    \/ CallObjects
    \/ Return
    \/ CreateVault
    \/ CreateLazyMaps
    \/ GetLazyMapEntry
    \/ PutLazyMapEntry
    \/ CreateComponent
    \/ PutComponentState
    \/ Finalize

SpecObjects == Init /\ [][NextObjects]_vars

\* components that call each other and themselves
NextReentry ==
    \/ CallNested
    \/ Return
    \/ CreateVault
    \/ CreateComponent
    \/ PutComponentState
    \/ Finalize

SpecReentry == Init /\ [][NextReentry]_vars

\* the writes of a transaction as they are applied to the store: each one
\* gets the next physical id of the transaction's generator
InitLedger ==
    /\ \E tx_hash \in TxHashes : id_gen = SubstateIdGenerator_new(tx_hash)
    /\ writes = <<>>
    /\ vault = Vault_new([resource_address |-> "R1", amount |-> 0, keys |-> {}], "A1")
    /\ vm = [memory |-> <<>>, ptr |-> 0]
    /\ store = InitialSubstates
    /\ track = Track_new(InitialSubstates)
    /\ frames = <<Process_new(0)>>
    /\ pc = "running"
    /\ err = "Ok"
    /\ op = "none"

PutSubstate ==
    /\ Len(writes) < MaxWrites
    /\ \E address \in Addresses :
           LET next == SubstateIdGenerator_next(id_gen)
           IN /\ id_gen' = next.self
              /\ writes' = Append(writes, [address |-> address, phys_id |-> next.phys_id])
    /\ UNCHANGED <<frames, track, store, pc, err, op, vault, vm>>

NextLedger == PutSubstate

SpecLedger == InitLedger /\ [][NextLedger]_vars

\* the instructions of a transaction whose root frame takes buckets from
\* its worktop, makes proofs of them, pushes proofs to its auth zone and
\* calls a method with all resources
RootTakeFromWorktop ==
    /\ IsRoot /\ Cur(World).id_allocator < MaxRootIds
    /\ \E amount \in TakeAmounts, r \in Resources :
           Finish("take_from_worktop", take_from_worktop(World, amount, r))

RootCreateBucketProof ==
    /\ IsRoot /\ Cur(World).id_allocator < MaxRootIds
    /\ \E bucket_id \in DOMAIN Cur(World).buckets :
           Finish("create_bucket_proof", create_bucket_proof(World, bucket_id))

RootPushToAuthZone ==
    /\ IsRoot
    /\ \E proof_id \in DOMAIN Cur(World).proofs :
           Finish("push_to_auth_zone", push_to_auth_zone(World, proof_id))

NextAllResources ==
    \/ Call
    \/ TakeFromVault
    \/ Return
    \/ RootTakeFromWorktop
    \/ RootCreateBucketProof
    \/ RootPushToAuthZone
    \/ CallMethodWithAllResources
    \/ Finalize

SpecAllResources == Init /\ [][NextAllResources]_vars

\* the operations of actors on one vault
InitVault ==
    /\ \E bucket \in VaultBuckets, authority \in Authorities :
           vault = Vault_new(bucket, authority)
    /\ id_gen = SubstateIdGenerator_new("h1") /\ writes = <<>>
    /\ vm = [memory |-> <<>>, ptr |-> 0]
    /\ store = InitialSubstates
    /\ track = Track_new(InitialSubstates)
    /\ frames = <<Process_new(0)>>
    /\ pc = "running"
    /\ err = "Ok"
    /\ op = "none"

VaultStep(name, r) ==
    /\ vault' = r.vault
    /\ err' = r.err
    /\ op' = name
    /\ UNCHANGED <<frames, track, store, pc, id_gen, writes, vm>>

VaultPut ==
    \E actor \in VaultActors, other \in VaultBuckets :
        /\ vault.bucket.amount + other.amount <= MaxVaultAmount
        /\ VaultStep("put", Vault_put(vault, other, actor))

VaultTake ==
    \E actor \in VaultActors, amount \in 0..MaxVaultAmount :
        VaultStep("take", Vault_take(vault, amount, actor))

VaultTakeNonFungible ==
    \E actor \in VaultActors, key \in NonFungibleKeys :
        VaultStep("take_non_fungible", Vault_take_non_fungible(vault, key, actor))

VaultRead ==
    \E actor \in VaultActors :
        \/ VaultStep("get_non_fungible_ids", Vault_get_non_fungible_ids(vault, actor))
        \/ VaultStep("total_supply", Vault_total_supply(vault, actor))
        \/ VaultStep("amount", Vault_amount(vault, actor))
        \/ VaultStep("resource_address", Vault_resource_address(vault, actor))

NextVault ==
    \/ VaultPut
    \/ VaultTake
    \/ VaultTakeNonFungible
    \/ VaultRead

SpecVault == InitVault /\ [][NextVault]_vars

\* a guest that writes its memory, grows it and returns pointers into it
InitReturn ==
    /\ vm = [memory |-> [i \in 1..(2 * PageSize) |-> 0], ptr |-> 0]
    /\ id_gen = SubstateIdGenerator_new("h1") /\ writes = <<>>
    /\ vault = Vault_new([resource_address |-> "R1", amount |-> 0, keys |-> {}], "A1")
    /\ store = InitialSubstates
    /\ track = Track_new(InitialSubstates)
    /\ frames = <<Process_new(0)>>
    /\ pc = "running"
    /\ err = "Ok"
    /\ op = "none"

GuestStore ==
    /\ \E address \in 0..(MaxWritten - 1), byte \in 0..(ByteBase - 1) :
           vm' = [vm EXCEPT !.memory[address + 1] = byte]
    /\ op' = "store"
    /\ err' = "Ok"
    /\ UNCHANGED <<frames, track, store, pc, id_gen, writes, vault>>

GuestGrow ==
    /\ Len(vm.memory) + PageSize <= MaxPages * PageSize
    /\ vm' = [vm EXCEPT !.memory = @ \o [i \in 1..PageSize |-> 0]]
    /\ op' = "grow"
    /\ err' = "Ok"
    /\ UNCHANGED <<frames, track, store, pc, id_gen, writes, vault>>

GuestReturn ==
    /\ \E ptr \in 0..WordMax :
           /\ vm' = [vm EXCEPT !.ptr = ptr]
           /\ err' = read_return_value(vm.memory, ptr).err
    /\ op' = "read_return_value"
    /\ UNCHANGED <<frames, track, store, pc, id_gen, writes, vault>>

NextReturn ==
    \/ GuestStore
    \/ GuestGrow
    \/ GuestReturn

SpecReturn == InitReturn /\ [][NextReturn]_vars

(***************************************************************************)
(* Properties.                                                             *)
(***************************************************************************)
RECURSIVE SumOf(_, _)
SumOf(containers, r) ==
    IF containers = <<>> THEN 0
    ELSE (IF Head(containers).resource_def_id = r THEN total_amount(Head(containers)) ELSE 0)
         + SumOf(Tail(containers), r)

RECURSIVE FramesTotal(_, _)
FramesTotal(fs, r) ==
    IF fs = <<>> THEN 0
    ELSE SumOf(MapValues(Head(fs).buckets), r) + SumOf(MapValues(Head(fs).worktop), r)
         + SumOf(MapValues(Head(fs).owned_vaults), r) + FramesTotal(Tail(fs), r)

\* liquid plus locked amount of resource r over every container of w
Total(w, r) == FramesTotal(w.frames, r) + SumOf(MapValues(w.track.substates.vaults), r)

BucketValue(id) == ScryptoValue(<<id>>, <<>>, <<>>, <<>>)
ProofValue(id) == ScryptoValue(<<>>, <<id>>, <<>>, <<>>)

\* C1: a step that is neither a mint nor a burn and that leaves the
\* transaction running leaves, for every resource address, the sum of liquid
\* plus locked amounts over all buckets, worktops and vaults unchanged.
C1_Conservation ==
    [][(pc' = "running" /\ ~(Mint \/ Burn)) =>
          \A r \in Resources :
              Total([frames |-> frames', track |-> track'], r) = Total(World, r)]_vars

\* resources taken from the persisted vault have reached the root's worktop
C1_Witness ==
    /\ pc = "running"
    /\ Len(frames) = 1
    /\ "R1" \in DOMAIN frames[1].worktop
    /\ frames[1].worktop["R1"].liquid_amount > 0
    /\ track.substates.vaults[<<AccountAddress, PersistedVault>>].liquid_amount < VaultSupply

\* C2: no bucket id and no proof id is in the map of two frames, and a call
\* or a return that moves a bucket or a proof takes it out of the sender's
\* map and puts it into the receiver's.
C2_Linearity ==
    /\ \A i, j \in 1..Len(frames) :
           i # j => /\ DOMAIN frames[i].buckets \cap DOMAIN frames[j].buckets = {}
                    /\ DOMAIN frames[i].proofs \cap DOMAIN frames[j].proofs = {}
    /\ pc = "running" /\ Len(frames) <= MaxDepth =>
           \A actor \in Actors, function \in Functions, arg \in Values :
               LET r == call(World, Invocation(actor, function, arg))
               IN r.err = "Ok" =>
                      /\ Range(arg.bucket_ids) \cap DOMAIN r.frames[Len(frames)].buckets = {}
                      /\ Range(arg.proof_ids) \cap DOMAIN r.frames[Len(frames)].proofs = {}
                      /\ Range(arg.bucket_ids) \subseteq DOMAIN Cur(r).buckets
                      /\ Range(arg.proof_ids) \subseteq DOMAIN Cur(r).proofs
    /\ IsGuest =>
           \A result \in Values :
               LET r == internal_call_return(World, result, result.proof_ids)
                   caller == Cur(r)
               IN r.err = "Ok" =>
                      /\ Len(r.frames) = Len(frames) - 1
                      /\ IF caller.depth = 0
                         THEN /\ Range(result.bucket_ids) \cap DOMAIN caller.buckets = {}
                              /\ Range(result.proof_ids) \cap DOMAIN caller.proofs = {}
                         ELSE /\ Range(result.bucket_ids) \subseteq DOMAIN caller.buckets
                              /\ Range(result.proof_ids) \subseteq DOMAIN caller.proofs

\* a callee holds a bucket that the root frame allocated
C2_Witness ==
    /\ Len(frames) = 2
    /\ \E id \in TransactionIds :
           id \in DOMAIN frames[2].buckets /\ id \notin DOMAIN frames[1].buckets

\* C3: a proof moved as a call argument is restricted in the callee; a
\* restricted proof cannot be moved as an argument or as a return value, the
\* attempt fails CantMoveRestrictedProof; a proof moved as a return value is
\* not restricted in the caller.
C3_RestrictedProof ==
    pc = "running" =>
        /\ \A actor \in Actors, function \in Functions, id \in DOMAIN Cur(World).proofs :
               LET r == call(World, Invocation(actor, function, ProofValue(id)))
               IN /\ r.err = "Ok" => Cur(r).proofs[id].restricted
                  /\ Cur(World).proofs[id].restricted =>
                         r.err = "CantMoveRestrictedProof"
        /\ IsGuest =>
               \A id \in DOMAIN Cur(World).proofs :
                   LET r == internal_call_return(World, ProofValue(id), ProofValue(id).proof_ids)
                       caller == Cur(r)
                   IN /\ Cur(World).proofs[id].restricted =>
                             r.err = "CantMoveRestrictedProof"
                      /\ r.err = "Ok" =>
                             IF caller.depth = 0
                             THEN ~caller.auth_zone[Len(caller.auth_zone)].restricted
                             ELSE ~caller.proofs[id].restricted

\* a callee returned the proof it had received as an argument
C3_Witness ==
    /\ pc = "failed" /\ op = "return" /\ err = "CantMoveRestrictedProof"
    /\ Len(frames) = 2

\* C4: pushing a restricted proof onto the auth zone fails
\* CantMoveRestrictedProof and leaves the auth zone as it was; pushing an
\* unknown proof id fails ProofNotFound.  Both ways of pushing are covered:
\* the push_to_auth_zone call and the Push method of the auth zone.
C4_PushRestricted ==
    /\ pc = "running" =>
           \A id \in Ids :
               LET direct == push_to_auth_zone(World, id)
                   invoked == auth_zone_invoke_push(World, id)
               IN /\ id \notin DOMAIN Cur(World).proofs =>
                         /\ direct.err = "ProofNotFound"
                         /\ invoked.err = "ProofNotFound"
                  /\ id \in DOMAIN Cur(World).proofs /\ Cur(World).proofs[id].restricted =>
                         /\ direct.err = "CantMoveRestrictedProof"
                         /\ invoked.err = "CantMoveRestrictedProof"
                         /\ Cur(direct).auth_zone = Cur(World).auth_zone
                         /\ Cur(invoked).auth_zone = Cur(World).auth_zone
    /\ \A i \in 1..Len(frames) :
           \A k \in 1..Len(frames[i].auth_zone) : ~frames[i].auth_zone[k].restricted

\* a callee pushed the proof it had received as an argument
C4_Witness ==
    /\ pc = "failed" /\ err = "CantMoveRestrictedProof"
    /\ op \in {"push_to_auth_zone", "auth_zone_push"}

\* the proofs a frame holds, named or on its auth zone
HeldProofs(f) == Range(MapValues(f.proofs)) \cup Range(f.auth_zone)

\* C5: moving a bucket as a call argument or as a return value fails
\* BucketNotFound if the id is not in the sender's map and
\* CantMoveLockedBucket if the bucket is locked; a callee that returns a
\* bucket while it holds a proof of that bucket fails.
C5_SendBuckets ==
    pc = "running" =>
        \A id \in Ids :
            /\ \A actor \in Actors, function \in Functions :
                   LET r == call(World, Invocation(actor, function, BucketValue(id)))
                   IN /\ id \notin DOMAIN Cur(World).buckets => r.err = "BucketNotFound"
                      /\ id \in DOMAIN Cur(World).buckets /\ is_locked(Cur(World).buckets[id])
                             => r.err = "CantMoveLockedBucket"
            /\ IsGuest =>
                   LET r == internal_call_return(World, BucketValue(id), BucketValue(id).proof_ids)
                   IN /\ id \notin DOMAIN Cur(World).buckets => r.err = "BucketNotFound"
                      /\ id \in DOMAIN Cur(World).buckets /\ is_locked(Cur(World).buckets[id])
                             => r.err = "CantMoveLockedBucket"
                      /\ /\ id \in DOMAIN Cur(World).buckets
                         /\ \E proof \in HeldProofs(Cur(World)) : proof.source = <<"Bucket", id>>
                         => r.err = "CantMoveLockedBucket"

\* a callee returned a bucket while a proof of it was alive
C5_Witness ==
    /\ pc = "failed" /\ op = "return" /\ err = "CantMoveLockedBucket"

\* C6: put and take on a locked container fail, and a locked container is
\* not merged into another one.
C6_LockDiscipline ==
    IsGuest =>
        /\ \A vault_id \in VaultIds, amount \in TakeAmounts :
               LET local == get_local_vault(World, vault_id)
               IN local.err = "Ok" /\ is_locked(LocalVault(World, local, vault_id)) =>
                      handle_take_from_vault(World, vault_id, amount).err # "Ok"
        /\ \A bucket_id \in DOMAIN Cur(World).buckets, amount \in TakeAmounts :
               is_locked(Cur(World).buckets[bucket_id]) =>
                   handle_take_from_bucket(World, bucket_id, amount).err # "Ok"
        /\ \A bucket_id \in DOMAIN Cur(World).buckets, vault_id \in VaultIds :
               LET local == get_local_vault(World, vault_id)
               IN /\ local.err = "Ok"
                  /\ \/ is_locked(LocalVault(World, local, vault_id))
                     \/ is_locked(Cur(World).buckets[bucket_id])
                  => handle_put_into_vault(World, bucket_id, vault_id).err # "Ok"
        /\ \A bucket_id, other \in DOMAIN Cur(World).buckets :
               /\ bucket_id # other
               /\ \/ is_locked(Cur(World).buckets[bucket_id])
                  \/ is_locked(Cur(World).buckets[other])
               => handle_put_into_bucket(World, bucket_id, other).err # "Ok"

\* C7: the burn of a locked bucket fails, and leaves the bucket and the
\* total supply as they were.
C7_BurnLocked ==
    IsGuest =>
        \A bucket_id \in DOMAIN Cur(World).buckets :
            is_locked(Cur(World).buckets[bucket_id]) =>
                LET r == handle_burn_resource(World, bucket_id)
                IN /\ r.err # "Ok"
                   /\ r.track.substates.total_supply = track.substates.total_supply

\* what a callee that returns result would leave behind
Leftover(f, result) ==
    \/ DOMAIN f.buckets \ Range(result.bucket_ids) # {}
    \/ ~Worktop_is_empty(f.worktop)
    \/ DOMAIN f.owned_vaults # {}
    \/ DOMAIN f.owned_lazy_maps # {}

\* the return value can be harvested from the callee
Harvestable(f, result) ==
    /\ result.vault_ids = <<>> /\ result.lazy_map_ids = <<>>
    /\ \A id \in Range(result.bucket_ids) :
           id \in DOMAIN f.buckets /\ ~is_locked(f.buckets[id])
    /\ \A id \in Range(result.proof_ids) :
           id \in DOMAIN f.proofs /\ ~f.proofs[id].restricted

\* C8: when a callee returns, after the harvest of the return value and the
\* drop of its proofs, the call fails ResourceCheckFailure if the callee
\* still owns a bucket, a non-empty worktop entry, or a vault or lazy map not
\* attached to a component; the call succeeds only if none remains.
C8_FrameExit ==
    IsGuest =>
        \A result \in Values :
            LET r == internal_call_return(World, result, result.proof_ids)
            IN /\ r.err = "Ok" => ~Leftover(Cur(World), result)
               /\ Harvestable(Cur(World), result) /\ Leftover(Cur(World), result) =>
                      r.err = "ResourceCheckFailure"

\* a callee returned while it owned a vault it had created
C8_Witness ==
    /\ pc = "failed" /\ op = "return" /\ err = "ResourceCheckFailure"
    /\ Len(frames) = 2
    /\ DOMAIN frames[2].owned_vaults # {}
    /\ DOMAIN frames[2].buckets = {}

\* C9: after the last instruction the transaction fails ResourceCheckFailure
\* unless the root frame holds no bucket, no proof and nothing on its
\* worktop; it commits only if all three are empty.
C9_EndOfTransaction ==
    /\ IsRoot =>
           LET r == finalize(World)
               empty == /\ DOMAIN frames[1].buckets = {}
                        /\ DOMAIN frames[1].proofs = {}
                        /\ Worktop_is_empty(frames[1].worktop)
           IN IF empty THEN r.err = "Ok" ELSE r.err = "ResourceCheckFailure"
    /\ pc = "committed" =>
           /\ DOMAIN frames[1].buckets = {}
           /\ DOMAIN frames[1].proofs = {}
           /\ Worktop_is_empty(frames[1].worktop)

\* the transaction ended with a resource left on the worktop
C9_Witness ==
    /\ pc = "failed" /\ op = "finalize" /\ err = "ResourceCheckFailure"
    /\ ~Worktop_is_empty(frames[1].worktop)
    /\ DOMAIN frames[1].buckets = {}

\* C10: the store is the pre-transaction snapshot unless the transaction
\* committed, and a committed store is what the Track buffered; a
\* transaction that ended in an error or a panic never wrote to the store.
C10_Atomicity ==
    /\ pc # "committed" => store = InitialSubstates
    /\ pc = "committed" => store = track.substates /\ err = "Ok"

\* the transaction failed after the Track had buffered writes
C10_Witness ==
    /\ pc = "failed"
    /\ track.substates # InitialSubstates
    /\ store = InitialSubstates

(***************************************************************************)
(* Authorization.                                                          *)
(***************************************************************************)
HasProof(auth_zone, r) == \E i \in DOMAIN auth_zone : auth_zone[i].resource_def_id = r

\* C11: every invocation evaluates the target's authorization before the
\* target runs, against the caller's and the frame's auth zone for a bucket or
\* a vault and against the frame's auth zone for any other target; when the
\* predicate is not satisfied the call fails AuthorizationError and the
\* target is not executed. Here: the account's protected method, the
\* protected mint of R1, the protected burn of R2, and the mint of the
\* initial supply of a resource created with a protected mint.
C11_Authorization ==
    pc = "running" =>
        /\ \A arg \in Values :
               LET r == call(World, Invocation(<<"Component", AccountAddress>>,
                                               "withdraw", arg))
               IN ~HasProof(Cur(World).auth_zone, "R1") =>
                      /\ r.err # "Ok"
                      /\ Len(r.frames) = Len(frames)
                      /\ arg = EmptyValue => r.err = "AuthorizationError"
        /\ IsGuest =>
               /\ \A amount \in MintAmounts :
                      LET r == handle_mint_resource(World, "R1", amount)
                      IN IF HasProof(Cur(World).auth_zone, "R1")
                         THEN r.err # "AuthorizationError"
                         ELSE /\ r.err = "AuthorizationError"
                              /\ r.track = track /\ Cur(r).buckets = Cur(World).buckets
               /\ \A id \in DOMAIN Cur(World).buckets :
                      LET r == handle_burn_resource(World, id)
                      IN Cur(World).buckets[id].resource_def_id = "R2" =>
                             IF \/ HasProof(Cur(World).auth_zone, "R1")
                                \/ HasProof(caller_auth_zone(World), "R1")
                             THEN r.err = "Ok"
                             ELSE r.err = "AuthorizationError" /\ r.track = track
               /\ \A authorization \in Authorizations, amount \in MintAmounts :
                      LET r == handle_create_resource(World, authorization, <<amount>>)
                      IN /\ authorization.mint = Protected("R1")
                         /\ ~HasProof(Cur(World).auth_zone, "R1")
                         => /\ r.err = "AuthorizationError"
                            /\ r.track.substates.total_supply = track.substates.total_supply

(***************************************************************************)
(* Object ownership.                                                       *)
(***************************************************************************)
\* the vaults and lazy maps a frame created and has not attached to a
\* component, those taken in by its lazy maps included
OwnedVaults(f) ==
    DOMAIN f.owned_vaults
    \cup UNION {DOMAIN f.owned_lazy_maps[m].descendent_vaults : m \in DOMAIN f.owned_lazy_maps}

OwnedLazyMaps(f) ==
    DOMAIN f.owned_lazy_maps
    \cup UNION {DOMAIN f.owned_lazy_maps[m].descendent_lazy_maps :
                    m \in DOMAIN f.owned_lazy_maps}

\* the ids a host call of frame f may name
AllowedVaults(f) ==
    OwnedVaults(f)
    \cup IF f.wasm = "Component"
         THEN f.initial_loaded_object_refs.vault_ids \cup f.additional_object_refs.vault_ids
         ELSE {}

AllowedLazyMaps(f) ==
    OwnedLazyMaps(f)
    \cup IF f.wasm = "Component"
         THEN f.initial_loaded_object_refs.lazy_map_ids
              \cup f.additional_object_refs.lazy_map_ids
         ELSE {}

\* the vaults and lazy map entries of the components other than the one
\* frame f runs are the same in substates a and b
OthersUnchanged(f, a, b) ==
    /\ \A k \in DOMAIN a.vaults \cup DOMAIN b.vaults :
           k[1] # f.component_address =>
               k \in DOMAIN a.vaults /\ k \in DOMAIN b.vaults /\ a.vaults[k] = b.vaults[k]
    /\ \A k \in DOMAIN a.lazy_maps \cup DOMAIN b.lazy_maps :
           k[1] # f.component_address =>
               /\ k \in DOMAIN a.lazy_maps /\ k \in DOMAIN b.lazy_maps
               /\ a.lazy_maps[k] = b.lazy_maps[k]

\* C12: a host call that names a vault id or a lazy map id succeeds only if
\* the frame owns the id or, in a component frame, the id is among the
\* initial or the additional object refs; otherwise it fails VaultNotFound
\* or LazyMapNotFound; no call changes a vault or a lazy map entry of a
\* component other than the one the frame runs.
C12_Reachability ==
    IsGuest =>
        /\ \A vault_id \in VaultIds, amount \in TakeAmounts :
               LET take == handle_take_from_vault(World, vault_id, amount)
                   proof == create_vault_proof(World, vault_id)
               IN /\ vault_id \notin AllowedVaults(Cur(World)) =>
                         /\ take.err = "VaultNotFound" /\ take.track = track
                         /\ proof.err = "VaultNotFound"
                         /\ proof.track.substates = track.substates
                  /\ take.err = "Ok" =>
                         OthersUnchanged(Cur(World), track.substates, take.track.substates)
                  /\ proof.err = "Ok" =>
                         OthersUnchanged(Cur(World), track.substates, proof.track.substates)
        /\ \A lazy_map_id \in AllLazyMapIds, key \in Keys :
               LET get == handle_get_lazy_map_entry(World, lazy_map_id, key)
               IN /\ lazy_map_id \notin AllowedLazyMaps(Cur(World)) =>
                         get.err = "LazyMapNotFound" /\ get.frames = frames
                  /\ \A value \in EntryValues :
                         LET put == handle_put_lazy_map_entry(World, lazy_map_id, key, value)
                         IN /\ lazy_map_id \notin AllowedLazyMaps(Cur(World)) =>
                                   /\ put.err = "LazyMapNotFound"
                                   /\ put.track = track /\ put.frames = frames
                            /\ put.err = "Ok" =>
                                   OthersUnchanged(Cur(World), track.substates,
                                                   put.track.substates)

\* a method of the account runs while the component the transaction created
\* has a vault and a lazy map entry
C12_Witness ==
    /\ IsGuest
    /\ Cur(World).component_address = AccountAddress
    /\ \E k \in DOMAIN track.substates.vaults : k[1] = NewComponentAddress
    /\ \E k \in DOMAIN track.substates.lazy_maps : k[1] = NewComponentAddress

\* values that name a vault or a lazy map, with or without a bucket or a proof
CrossingValues ==
    {ScryptoValue(b, p, v, m) :
         b \in ArgSeqs(Ids), p \in ArgSeqs(Ids),
         v \in ArgSeqs(VaultIds), m \in ArgSeqs(AllLazyMapIds)}
    \ {ScryptoValue(b, p, <<>>, <<>>) : b \in ArgSeqs(Ids), p \in ArgSeqs(Ids)}

NotAllowed(value) ==
    IF value.lazy_map_ids # <<>> THEN "LazyMapNotAllowed" ELSE "VaultNotAllowed"

\* C13: a call whose argument names a vault or a lazy map fails
\* LazyMapNotAllowed / VaultNotAllowed whatever the target, found or not,
\* and moves no bucket and no proof; a return value that names one makes the
\* call fail with the same errors.
C13_NoCrossing ==
    pc = "running" =>
        \A value \in CrossingValues :
            /\ \A actor \in ObjectActors, function \in Functions :
                   LET r == call(World, Invocation(actor, function, value))
                   IN r.err = NotAllowed(value) /\ r.frames = frames /\ r.track = track
            /\ IsGuest =>
                   LET r == internal_call_return(World, value, value.proof_ids)
                   IN r.err = NotAllowed(value) /\ Len(r.frames) = Len(frames)

\* a call with a vault id as its argument has failed, the caller's buckets
\* still with the caller
C13_Witness ==
    /\ pc = "failed" /\ op = "call" /\ err = "VaultNotAllowed"
    /\ DOMAIN frames[Len(frames)].buckets # {}

\* the places of w where a value is kept: the state of a component, an entry
\* of a lazy map of a component, an entry of a lazy map a frame created or
\* of one it has taken in
Places(w) ==
    {<<"state", c>> : c \in DOMAIN w.track.substates.components}
    \cup {<<"entry", k>> : k \in DOMAIN w.track.substates.lazy_maps}
    \cup UNION {UNION {{<<"owned", i, m, key>> :
                            key \in DOMAIN w.frames[i].owned_lazy_maps[m].lazy_map}
                       \cup UNION {{<<"descendent", i, m, d, key>> :
                                       key \in DOMAIN w.frames[i].owned_lazy_maps[m]
                                                   .descendent_lazy_maps[d]} :
                                      d \in DOMAIN w.frames[i].owned_lazy_maps[m]
                                                .descendent_lazy_maps} :
                       m \in DOMAIN w.frames[i].owned_lazy_maps} :
                    i \in 1..Len(w.frames)}

ValueAt(w, place) ==
    IF place[1] = "state" THEN w.track.substates.components[place[2]]
    ELSE IF place[1] = "entry" THEN w.track.substates.lazy_maps[place[2]]
    ELSE IF place[1] = "owned"
    THEN w.frames[place[2]].owned_lazy_maps[place[3]].lazy_map[place[4]]
    ELSE w.frames[place[2]].owned_lazy_maps[place[3]].descendent_lazy_maps[place[4]][place[5]]

\* the references to vault id and to lazy map id in the values of w
VaultReferences(w, id) ==
    {<<place, i>> \in UNION {{<<pl, j>> : j \in DOMAIN ValueAt(w, pl).vault_ids} :
                                pl \in Places(w)} :
         ValueAt(w, place).vault_ids[i] = id}

LazyMapReferences(w, id) ==
    {<<place, i>> \in UNION {{<<pl, j>> : j \in DOMAIN ValueAt(w, pl).lazy_map_ids} :
                                pl \in Places(w)} :
         ValueAt(w, place).lazy_map_ids[i] = id}

\* the components that vault id and lazy map id are attached to
VaultComponents(w, id) == {k[1] : k \in {x \in DOMAIN w.track.substates.vaults : x[2] = id}}

LazyMapComponents(w, id) ==
    {k[1] : k \in {x \in DOMAIN w.track.substates.lazy_maps : x[2] = id}}

\* the ids a value names, as ComponentObjectRefs; the old refs of an entry
RefsOf(value) ==
    [vault_ids |-> Range(value.vault_ids), lazy_map_ids |-> Range(value.lazy_map_ids)]

OldRefs(w, lazy_map_id, key) ==
    LET owned == ComponentObjects_get_lazy_map_entry(Cur(w), lazy_map_id, key)
        old == IF owned.found THEN owned.value
               ELSE Track_get_lazy_map_entry(w.track, Cur(w).component_address,
                                             lazy_map_id, key)
    IN IF old = <<>> THEN ComponentObjectRefs_new ELSE RefsOf(old[1])

\* r is the outcome of storing value, whose ids other than those of old are
\* new references: a success takes every new id out of the frame's owned
\* maps, and a new id the frame does not own, or an id named twice, fails
Attaches(r, value, old) ==
    LET new_vaults == Range(value.vault_ids) \ old.vault_ids
        new_lazy_maps == Range(value.lazy_map_ids) \ old.lazy_map_ids
    IN /\ r.err = "Ok" =>
              /\ new_vaults \cap DOMAIN Cur(r).owned_vaults = {}
              /\ new_lazy_maps \cap DOMAIN Cur(r).owned_lazy_maps = {}
       /\ \/ ~(new_vaults \subseteq DOMAIN Cur(World).owned_vaults)
          \/ ~(new_lazy_maps \subseteq DOMAIN Cur(World).owned_lazy_maps)
          \/ Cardinality(Range(value.vault_ids)) # Len(value.vault_ids)
          \/ Cardinality(Range(value.lazy_map_ids)) # Len(value.lazy_map_ids)
          => r.err # "Ok" /\ r.track = track

\* C14: every vault id and every lazy map id is attached to at most one
\* component and is named at most once over the component states and the
\* lazy map entries; create_component, put_component_state and
\* put_lazy_map_entry take the ids they attach out of the frame's owned maps,
\* and fail on an id the frame does not own and on an id named twice.
C14_SingleOwnership ==
    /\ \A id \in VaultIds :
           /\ Cardinality(VaultComponents(World, id)) <= 1
           /\ Cardinality(VaultReferences(World, id)) <= 1
    /\ \A id \in AllLazyMapIds :
           /\ Cardinality(LazyMapComponents(World, id)) <= 1
           /\ Cardinality(LazyMapReferences(World, id)) <= 1
    /\ IsGuest =>
           \A value \in EntryValues :
               /\ Attaches(handle_create_component(World, value), value,
                           ComponentObjectRefs_new)
               /\ Cur(World).wasm = "Component" =>
                      Attaches(handle_put_component_state(World, value), value,
                               Cur(World).initial_loaded_object_refs)
               /\ \A lazy_map_id \in AllLazyMapIds, key \in Keys :
                      Attaches(handle_put_lazy_map_entry(World, lazy_map_id, key, value),
                               value, OldRefs(World, lazy_map_id, key))

\* the component the transaction created has a vault, and an entry of a lazy
\* map of a component names a lazy map or a vault
C14_Witness ==
    /\ pc = "running"
    /\ \E k \in DOMAIN track.substates.vaults : k[1] = NewComponentAddress
    /\ \E k \in DOMAIN track.substates.lazy_maps :
           \/ track.substates.lazy_maps[k].lazy_map_ids # <<>>
           \/ track.substates.lazy_maps[k].vault_ids # <<>>

(***************************************************************************)
(* Non-fungible uniqueness.                                                *)
(***************************************************************************)
\* the containers of w, each named by the place it is at
ContainerPlaces(w) ==
    {<<"bucket", i, id>> : i \in DOMAIN w.frames, id \in Ids}
    \cup {<<"worktop", i, r>> : i \in DOMAIN w.frames,
                                r \in Resources \cup NonFungibleResources
                                      \cup CoarseResources}
    \cup {<<"owned_vault", i, id>> : i \in DOMAIN w.frames, id \in VaultIds}
    \cup {<<"vault", k[1], k[2]>> : k \in DOMAIN w.track.substates.vaults}

HasContainer(w, place) ==
    IF place[1] = "bucket" THEN place[3] \in DOMAIN w.frames[place[2]].buckets
    ELSE IF place[1] = "worktop" THEN place[3] \in DOMAIN w.frames[place[2]].worktop
    ELSE IF place[1] = "owned_vault"
    THEN place[3] \in DOMAIN w.frames[place[2]].owned_vaults
    ELSE TRUE

ContainerAt(w, place) ==
    IF place[1] = "bucket" THEN w.frames[place[2]].buckets[place[3]]
    ELSE IF place[1] = "worktop" THEN w.frames[place[2]].worktop[place[3]]
    ELSE IF place[1] = "owned_vault" THEN w.frames[place[2]].owned_vaults[place[3]]
    ELSE w.track.substates.vaults[<<place[2], place[3]>>]

\* the places where non-fungible id of resource r is liquid, and is locked
LiquidAt(w, r, id) ==
    {place \in ContainerPlaces(w) :
        /\ HasContainer(w, place)
        /\ ContainerAt(w, place).resource_def_id = r
        /\ resource_type(ContainerAt(w, place)) = "NonFungible"
        /\ id \in ContainerAt(w, place).liquid_ids}

LockedAt(w, r, id) ==
    {place \in ContainerPlaces(w) :
        /\ HasContainer(w, place)
        /\ ContainerAt(w, place).resource_def_id = r
        /\ resource_type(ContainerAt(w, place)) = "NonFungible"
        /\ id \in DOMAIN ContainerAt(w, place).locked_ids}

LazyMapOf(place) ==
    IF place[1] = "entry" THEN place[2][2]
    ELSE IF place[1] = "owned" THEN place[3]
    ELSE IF place[1] = "descendent" THEN place[4]
    ELSE <<"None", 0>>

\* the lazy maps that the entries of the lazy maps of S name
Children(w, S) ==
    UNION {Range(ValueAt(w, place).lazy_map_ids) :
               place \in {pl \in Places(w) : LazyMapOf(pl) \in S}}

\* the lazy maps reached from those of S in 1..n steps
RECURSIVE Descendants(_, _, _)
Descendants(w, S, n) ==
    IF n = 0 THEN {}
    ELSE Children(w, S) \cup Descendants(w, Children(w, S), n - 1)

\* C16: no lazy map is a descendant of itself and every lazy map is named by
\* at most one entry or state, in every state a transaction of
\* create_lazy_map and put_lazy_map_entry calls reaches; a lazy map a frame
\* owns is not among its own descendents; and a put into an uncommitted map
\* whose new value names the root of the target's chain never succeeds and
\* changes nothing: it fails CyclicLazyMap once the value has passed the
\* checks made before the cycle check (no bucket, no proof, no id twice, no
\* reference of the old entry dropped).
C16_NoCyclicLazyMap ==
    /\ \A id \in AllLazyMapIds :
           /\ id \notin Descendants(World, {id}, MaxLazyMaps)
           /\ Cardinality(LazyMapReferences(World, id)) <= 1
    /\ \A i \in DOMAIN frames : \A root \in DOMAIN frames[i].owned_lazy_maps :
           root \notin DOMAIN frames[i].owned_lazy_maps[root].descendent_lazy_maps
    /\ IsGuest =>
           \A lazy_map_id \in AllLazyMapIds, key \in Keys, value \in EntryValues :
               LET owned == ComponentObjects_get_lazy_map_entry(Cur(World), lazy_map_id, key)
                   r == handle_put_lazy_map_entry(World, lazy_map_id, key, value)
                   data == process_entry_data(value)
               IN owned.found /\ owned.root \in Range(value.lazy_map_ids) =>
                      /\ r.err \notin {"Ok", "panic"}
                      /\ r.frames = frames /\ r.track = track
                      /\ (data.err = "Ok"
                          /\ ComponentObjectRefs_remove(
                                 data, OldRefs(World, lazy_map_id, key)).err = "Ok")
                             => r.err = "CyclicLazyMap"

\* a frame owns a lazy map that has taken in another one, so that a put into
\* the inner map of a value naming the outer one is a put that would close a
\* cycle of length two
C16_Witness ==
    /\ IsGuest
    /\ \E root \in DOMAIN Cur(World).owned_lazy_maps :
           \E d \in DOMAIN Cur(World).owned_lazy_maps[root].descendent_lazy_maps :
               handle_put_lazy_map_entry(World, d, "k1",
                   ScryptoValue(<<>>, <<>>, <<>>, <<root>>)).err = "CyclicLazyMap"

(***************************************************************************)
(* Buckets and proofs are never persisted.                                 *)
(***************************************************************************)
\* states and entries that contain a bucket id or a proof id, alone or next
\* to other identifiers
TransientValues ==
    {value \in {ScryptoValue(b, p, v, m) :
                    b \in ArgSeqs(Ids), p \in ArgSeqs(Ids),
                    v \in ArgSeqs(VaultIds), m \in ArgSeqs(AllLazyMapIds)} :
         value.bucket_ids # <<>> \/ value.proof_ids # <<>>}

\* the error of a state or entry that contains a bucket id or a proof id
NotPersisted(value) ==
    IF value.bucket_ids # <<>> THEN "BucketNotAllowed" ELSE "ProofNotAllowed"

\* r is a failure with the error of value that has changed nothing
Rejected(r, value) ==
    /\ r.err = NotPersisted(value)
    /\ r.track = track
    /\ r.frames = frames

\* C17: in a guest frame, create_component, put_component_state (in a frame
\* that runs a component) and put_lazy_map_entry (into a lazy map the frame
\* reaches) fail BucketNotAllowed on a state or entry that contains a bucket
\* id and ProofNotAllowed on one that contains a proof id and no bucket id,
\* and the failure leaves the Track and every frame, its owned vaults and
\* lazy maps included, as they were; no component state and no lazy map
\* entry ever contains a bucket id or a proof id.
C17_NeverPersisted ==
    /\ \A place \in Places(World) :
           ValueAt(World, place).bucket_ids = <<>> /\ ValueAt(World, place).proof_ids = <<>>
    /\ IsGuest =>
           \A value \in TransientValues :
               /\ Rejected(handle_create_component(World, value), value)
               /\ Cur(World).wasm = "Component" =>
                      Rejected(handle_put_component_state(World, value), value)
               /\ \A lazy_map_id \in AllLazyMapIds, key \in Keys :
                      (\/ ComponentObjects_get_lazy_map_entry(
                              Cur(World), lazy_map_id, key).found
                       \/ lazy_map_state(Cur(World), lazy_map_id) = "Ok")
                          => Rejected(handle_put_lazy_map_entry(
                                          World, lazy_map_id, key, value), value)

\* a put of an entry that contains a bucket id, into a lazy map of a frame
\* that has a lazy map entry and a component state stored, has failed
C17_Witness ==
    /\ pc = "failed"
    /\ op = "put_lazy_map_entry"
    /\ err = "BucketNotAllowed"
    /\ Cur(World).owned_lazy_maps # EmptyMap
    /\ Places(World) # {<<"state", AccountAddress>>}

(***************************************************************************)
(* Determinism.                                                            *)
(***************************************************************************)
\* C18: the outcome of a return, the caller's frame and the order of the
\* proofs on the root's auth zone included, is the same for every order in
\* which the iteration over the map of the moving proofs may yield them.
C18_Determinism ==
    IsGuest =>
        \A result \in Values \cup ProofPairs :
            \A order, other \in Iterations(Range(result.proof_ids)) :
                internal_call_return(World, result, order)
                    = internal_call_return(World, result, other)

(***************************************************************************)
(* Metering.                                                               *)
(***************************************************************************)
\* sequences of at most MaxCharges charges
ChargeSeqs == UNION {[1..n -> Charges] : n \in 0..MaxCharges}

RECURSIVE SumSeq(_)
SumSeq(charges) == IF charges = <<>> THEN 0 ELSE Head(charges) + SumSeq(Tail(charges))

\* the charges of a sequence one after the other, up to the first that fails:
\* [err, w, done (the number of charges that succeeded)]
RECURSIVE use_tbd_all(_, _, _)
use_tbd_all(w, charges, done) ==
    IF charges = <<>> THEN [err |-> "Ok", w |-> w, done |-> done]
    ELSE LET r == use_tbd(w, Head(charges))
         IN IF r.err # "Ok" THEN [err |-> r.err, w |-> r, done |-> done]
            ELSE use_tbd_all([frames |-> r.frames, track |-> r.track],
                             Tail(charges), done + 1)

\* the frames of the transaction with the running frame's balance at its limit
Refilled ==
    [World EXCEPT !.frames[Len(frames)].tbd_balance = Cur(World).tbd_limit]

\* C19: the balance of a frame stays between zero and the limit; a charge
\* succeeds exactly if what was used before plus the charge is at most the
\* limit, it then adds the charge to what was used and changes nothing
\* else, and otherwise it fails OutOfTbd; from a balance at the limit a
\* sequence of charges succeeds exactly if its total is at most the limit,
\* and otherwise it stops with OutOfTbd at the first charge with which the
\* running total exceeds the limit; a transaction in which a charge failed
\* has ended with OutOfTbd and an unchanged store.
C19_MeteringExhaustion ==
    /\ \A i \in DOMAIN frames :
           frames[i].tbd_balance \in 0..frames[i].tbd_limit
    /\ op = "use_tbd" => pc = "failed" /\ err = "OutOfTbd" /\ store = InitialSubstates
    /\ IsGuest =>
           /\ \A tbd \in Charges :
                  LET r == use_tbd(World, tbd)
                  IN /\ r.err = "Ok" <=> tbd_used(Cur(World)) + tbd <= Cur(World).tbd_limit
                     /\ r.err # "Ok" => r.err = "OutOfTbd"
                     /\ r.err = "Ok" =>
                            /\ tbd_used(Cur(r)) = tbd_used(Cur(World)) + tbd
                            /\ r.track = track
                            /\ r.frames = [frames EXCEPT ![Len(frames)].tbd_balance =
                                                            Cur(r).tbd_balance]
           /\ \A charges \in ChargeSeqs :
                  LET r == use_tbd_all(Refilled, charges, 0)
                      within(n) == SumSeq(SubSeq(charges, 1, n)) <= Cur(World).tbd_limit
                  IN /\ r.err = "Ok" <=> within(Len(charges))
                     /\ r.err # "Ok" =>
                            /\ r.err = "OutOfTbd"
                            /\ within(r.done)
                            /\ ~within(r.done + 1)

\* a charge that the balance of the guest did not hold has ended the
\* transaction and has left the balance at zero
C19_Witness ==
    /\ pc = "failed"
    /\ op = "use_tbd"
    /\ err = "OutOfTbd"
    /\ Cur(World).tbd_balance = 0

\* C20: a host call of a guest whose balance is zero fails OutOfTbd and
\* changes neither the Track nor the frames, and a host call that succeeds
\* has made the balance of the calling frame smaller.
C20_BilledBeforeHandler ==
    IsGuest =>
        \A input \in RadixEngineInputs :
            LET r == main(World, input)
            IN /\ Cur(World).tbd_balance = 0 =>
                      r.err = "OutOfTbd" /\ r.track = track /\ r.frames = frames
               /\ r.err = "Ok" =>
                      r.frames[Len(frames)].tbd_balance < Cur(World).tbd_balance

(***************************************************************************)
(* Boundaries of take.                                                     *)
(***************************************************************************)
\* the fungible containers of w
FungibleContainers(w) ==
    {ContainerAt(w, place) :
         place \in {q \in ContainerPlaces(w) :
                       HasContainer(w, q) /\ resource_type(ContainerAt(w, q)) = "Fungible"}}

\* the liquid amount of c is a multiple of the granularity of its resource
Aligned(c) == c.liquid_amount % Granularity(c.divisibility) = 0

\* the amounts above the liquid amount of c that are multiples of the
\* granularity
Above(c) == {c.liquid_amount + n * Granularity(c.divisibility) : n \in 1..2}

\* C21: for every fungible container of a transaction whose liquid amount
\* is a multiple of the granularity of its resource, take of exactly the
\* liquid amount succeeds, returns a container of the same resource holding
\* that amount and leaves the source with liquid amount zero and its locks
\* as they were, and take of a larger multiple of the granularity fails
\* InsufficientBalance and leaves the source as it was; take_from_bucket on
\* a bucket of the running frame does the same to the bucket and to the
\* bucket it creates.
C21_TakeBoundary ==
    /\ \A c \in FungibleContainers(World) :
           Aligned(c) =>
               /\ LET t == container_take(c, c.liquid_amount)
                  IN /\ t.err = "Ok"
                     /\ t.taken = new_fungible(c.resource_def_id, c.divisibility,
                                               c.liquid_amount)
                     /\ t.self = [c EXCEPT !.liquid_amount = 0]
               /\ \A quantity \in Above(c) :
                      LET t == container_take(c, quantity)
                      IN t.err = "InsufficientBalance" /\ t.self = c
    /\ IsGuest /\ CanAllocate(World) =>
           \A bucket_id \in DOMAIN Cur(World).buckets :
               LET c == Cur(World).buckets[bucket_id]
                   r == handle_take_from_bucket(World, bucket_id, c.liquid_amount)
                   id == new_id(World).id
               IN resource_type(c) = "Fungible" /\ Aligned(c) =>
                      /\ r.err = "Ok"
                      /\ r.frames[Top(World)].buckets[bucket_id].liquid_amount = 0
                      /\ r.frames[Top(World)].buckets[id].liquid_amount = c.liquid_amount
                      /\ \A quantity \in Above(c) :
                             LET f == handle_take_from_bucket(World, bucket_id, quantity)
                             IN /\ f.err = "InsufficientBalance"
                                /\ f.frames[Top(World)].buckets = Cur(World).buckets

\* a guest holds a bucket of D1 with a positive liquid amount and the
\* account vault still holds some: both boundaries are those of a take that
\* moves something
C21_Witness ==
    /\ IsGuest /\ CanAllocate(World)
    /\ \E bucket_id \in DOMAIN Cur(World).buckets :
           LET c == Cur(World).buckets[bucket_id]
           IN /\ resource_type(c) = "Fungible" /\ Aligned(c)
              /\ c.liquid_amount > 0
              /\ handle_take_from_bucket(World, bucket_id, c.liquid_amount).err = "Ok"
    /\ \E k \in DOMAIN track.substates.vaults :
           track.substates.vaults[k].liquid_amount > 0

(***************************************************************************)
(* Granularity.                                                            *)
(***************************************************************************)
\* amount is no multiple of the granularity of a resource of that divisibility
Misaligned(amount, divisibility) == amount % Granularity(divisibility) # 0

\* C22: in every state of a guest, take_from_bucket on a fungible bucket of
\* the running frame and a mint of a fungible resource, with an amount that
\* is no multiple of 10^(18 - divisibility), fail InvalidAmount and leave
\* every container and the total supply as they were.
C22_Granularity ==
    IsGuest /\ CanAllocate(World) =>
           /\ \A bucket_id \in DOMAIN Cur(World).buckets, quantity \in Quantities :
                  LET c == Cur(World).buckets[bucket_id]
                      r == handle_take_from_bucket(World, bucket_id, quantity)
                  IN resource_type(c) = "Fungible" /\ Misaligned(quantity, c.divisibility) =>
                         /\ r.err = "InvalidAmount"
                         /\ r.frames = frames
                         /\ r.track = track
           /\ \A resource_address \in CoarseResources, amount \in MintQuantities :
                  LET r == handle_mint_resource(World, resource_address, amount)
                  IN Misaligned(amount, divisibility_of(resource_address)) =>
                         /\ r.err = "InvalidAmount"
                         /\ r.frames = frames
                         /\ r.track = track

(***************************************************************************)
(* Round trip of take and put.                                             *)
(***************************************************************************)
\* the containers of w
Containers(w) ==
    {ContainerAt(w, place) : place \in {q \in ContainerPlaces(w) : HasContainer(w, q)}}

\* the world an operation that returned r leaves
WorldOf(r) == [frames |-> r.frames, track |-> r.track]

\* C23: for every container of a transaction (fungible or non-fungible,
\* locked or not) and every amount, if take(amount) succeeds then put of the
\* container it returned succeeds and leaves the source exactly as it was
\* before the take: the same liquid amount, or the same set of liquid ids.
\* Through the host calls: take_from_bucket followed by put_into_bucket of
\* the new bucket, and take_from_vault followed by put_into_vault, leave the
\* buckets of the frame and the vaults as they were.
C23_TakePutRoundTrip ==
    /\ \A c \in Containers(World), quantity \in Quantities :
           LET t == container_take(c, quantity)
               p == container_put(t.self, t.taken)
           IN t.err = "Ok" =>
                  /\ p.err = "Ok"
                  /\ liquid_amount(p.self) = liquid_amount(c)
                  /\ p.self = c
    /\ IsGuest /\ CanAllocate(World) =>
           /\ \A bucket_id \in DOMAIN Cur(World).buckets, quantity \in Quantities :
                  LET t == handle_take_from_bucket(World, bucket_id, quantity)
                      p == handle_put_into_bucket(WorldOf(t), bucket_id, new_id(World).id)
                  IN t.err = "Ok" =>
                         /\ p.err = "Ok"
                         /\ p.frames = frames
                         /\ p.track.substates = track.substates
           /\ \A vault_id \in VaultIds, quantity \in Quantities :
                  LET t == handle_take_from_vault(World, vault_id, quantity)
                      p == handle_put_into_vault(WorldOf(t), new_id(World).id, vault_id)
                  IN t.err = "Ok" =>
                         /\ p.err = "Ok"
                         /\ p.frames = frames
                         /\ p.track.substates = track.substates

\* a guest that may use the account vault holds a bucket of non-fungibles
\* of which take removes some and leaves some, and the vault holds an
\* amount of which take removes a part
C23_Witness ==
    /\ IsGuest /\ CanAllocate(World)
    /\ \E bucket_id \in DOMAIN Cur(World).buckets, quantity \in Quantities :
           LET c == Cur(World).buckets[bucket_id]
               t == container_take(c, quantity)
           IN /\ resource_type(c) = "NonFungible"
              /\ t.err = "Ok"
              /\ t.self.liquid_ids # {} /\ t.taken.liquid_ids # {}
    /\ \E quantity \in Quantities :
           LET t == handle_take_from_vault(World, PersistedVault, quantity)
           IN /\ t.err = "Ok"
              /\ quantity > 0
              /\ t.track.substates.vaults[<<AccountAddress, PersistedVault>>].liquid_amount > 0

(***************************************************************************)
(* Round trip of proofs.                                                   *)
(***************************************************************************)
\* the outcomes of the creations of a proof that succeed in w: of all of a
\* bucket, of an amount of it, of some ids of it, of all of a vault
Created(w) ==
    {r \in {create_bucket_proof(w, bucket_id) : bucket_id \in DOMAIN Cur(w).buckets}
          \cup {create_bucket_proof_by_amount(w, bucket_id, amount) :
                    bucket_id \in DOMAIN Cur(w).buckets, amount \in ProofAmounts}
          \cup {create_bucket_proof_by_ids(w, bucket_id, ids) :
                    bucket_id \in DOMAIN Cur(w).buckets, ids \in SUBSET NonFungibleIds}
          \cup {create_vault_proof(w, vault_id) : vault_id \in VaultIds} :
        r.err = "Ok"}

\* proof_id cloned n times: the world after the clones and the ids of the
\* proof and of its clones
RECURSIVE clone_proofs(_, _, _)
clone_proofs(w, proof_id, n) ==
    IF n = 0 THEN [w |-> w, ids |-> <<proof_id>>, err |-> "Ok"]
    ELSE LET r == clone_proof(w, proof_id)
             rest == clone_proofs(WorldOf(r), proof_id, n - 1)
         IN [w |-> rest.w,
             ids |-> <<new_id(w).id>> \o rest.ids,
             err |-> IF r.err # "Ok" THEN r.err ELSE rest.err]

\* the proofs ids dropped one after the other
RECURSIVE drop_proof_ids(_, _)
drop_proof_ids(w, ids) ==
    IF ids = <<>> THEN Ok(w)
    ELSE LET r == drop_proof(w, Head(ids))
         IN IF r.err # "Ok" THEN r ELSE drop_proof_ids(WorldOf(r), Tail(ids))

\* the frames, without the position of the root frame's id allocator
WithoutAllocator(fs) == [i \in DOMAIN fs |-> [fs[i] EXCEPT !.id_allocator = 0]]

\* the container holds no negative amount
NotNegative(c) == resource_type(c) = "NonFungible" \/ c.liquid_amount >= 0

\* amount, an amount or a set of ids of container c, is not zero or empty
NotEmpty(c, amount) ==
    IF resource_type(c) = "NonFungible" THEN amount # {} ELSE amount > 0

PresentIds(w) ==
    UNION {DOMAIN w.frames[i].buckets \cup DOMAIN w.frames[i].proofs :
               i \in DOMAIN w.frames}

\* the frames whose bucket map, or proof map, has the id
BucketFrames(w, id) == {i \in DOMAIN w.frames : id \in DOMAIN w.frames[i].buckets}
ProofFrames(w, id) == {i \in DOMAIN w.frames : id \in DOMAIN w.frames[i].proofs}

\* C25: the id the next allocation hands out (the root frame's allocator at
\* depth 0, the Track's counter in a deeper frame) is in no frame's bucket map
\* or proof map; the buckets call_method_with_all_resources makes of the
\* worktop at depth 0 get ids of the Track's counter that no frame has, one
\* for each resource, and leave the frame's other buckets as they are; and no
\* id names a bucket, or a proof, in two frames.  The proof that
\* create_virtual_proof inserts has the id its caller names: the property is
\* stated for a caller that names an id of the System space before the first
\* instruction.
C25_IdUniqueness ==
    pc = "running" =>
        /\ new_id(World).id \notin PresentIds(World)
        /\ \A id \in PresentIds(World) :
               /\ Cardinality(BucketFrames(World, id)) <= 1
               /\ Cardinality(ProofFrames(World, id)) <= 1
        /\ IsRoot =>
               \A order \in Iterations(DOMAIN Cur(World).worktop) :
                   LET dropped == drop_all_proofs(World)
                       moved == worktop_to_buckets(dropped, order)
                       made == DOMAIN Cur(moved).buckets \ DOMAIN Cur(dropped).buckets
                   IN /\ Cardinality(made) = Cardinality(DOMAIN Cur(World).worktop)
                      /\ made \cap PresentIds(World) = {}
                      /\ \A id \in DOMAIN Cur(dropped).buckets :
                             Cur(moved).buckets[id] = Cur(dropped).buckets[id]
                      /\ new_id(moved).id \notin PresentIds(moved)

\* a method was called with all resources: the frame it runs in has a bucket
\* the root allocator named and a bucket the Track's counter named at depth 0
C25_Witness ==
    /\ pc = "running" /\ Len(frames) = 2
    /\ DOMAIN Cur(World).buckets = {<<"Transaction", 1>>, <<"Application", 2>>}
    /\ track.next_id = 2

\* ---------------------------------------------------------------------
\* C26: the supply cap of a mint

\* C26: in a frame that may mint the resource, a mint of an amount of the
\* resource's granularity that exceeds the maximum mint amount fails
\* MaxMintAmountExceeded and leaves every frame and the Track as they were (no
\* bucket, no bucket id, the same total supply); the error is the
\* transaction's result, and nothing of the transaction is committed.
C26_SupplyCap ==
    /\ IsGuest =>
           \A r \in CoarseResources, amount \in MintQuantities :
               (amount > MaxMintAmount /\ ~Misaligned(amount, divisibility_of(r))) =>
                   LET res == handle_mint_resource(World, r, amount)
                   IN /\ res.err = "MaxMintAmountExceeded"
                      /\ res.frames = frames
                      /\ res.track = track
                      /\ handle_mint(res.err, res.track, store) = store
    /\ err = "MaxMintAmountExceeded" =>
           /\ op = "mint" /\ pc = "failed"
           /\ store = CoarseSubstates

\* a transaction that failed with a mint above the maximum
C26_Witness ==
    /\ err = "MaxMintAmountExceeded" /\ op = "mint" /\ pc = "failed"
    /\ \A i \in DOMAIN frames : DOMAIN frames[i].buckets = {}

\* ---------------------------------------------------------------------
\* C27: merging buckets

\* the container is the target with the liquid content of the other added
Merged(after, target, other) ==
    IF resource_type(target) = "NonFungible"
    THEN after = [target EXCEPT !.liquid_ids = @ \cup other.liquid_ids]
    ELSE after = [target EXCEPT !.liquid_amount = @ + other.liquid_amount]

\* C27: put_into_bucket(target, other) with two distinct buckets of the frame
\* that hold the same resource, the other one not locked, leaves the target
\* with the sum of both amounts, removes the other's id from the frame and
\* changes nothing else; it fails BucketNotFound when either id is missing
\* and when both ids are the same, and ResourceAddressNotMatching when the
\* two buckets hold different resources.
C27_MergeBuckets ==
    IsGuest =>
        \A bucket_id \in Ids, other \in Ids :
            LET held == Cur(World).buckets
                r == handle_put_into_bucket(World, bucket_id, other)
            IN IF bucket_id \notin DOMAIN held \/ other \notin DOMAIN held \/ bucket_id = other
               THEN r.err = "BucketNotFound"
               ELSE IF held[bucket_id].resource_def_id # held[other].resource_def_id
               THEN r.err = "ResourceAddressNotMatching"
               ELSE ~is_locked(held[other]) =>
                        /\ r.err = "Ok"
                        /\ DOMAIN Cur(r).buckets = DOMAIN held \ {other}
                        /\ Merged(Cur(r).buckets[bucket_id], held[bucket_id], held[other])
                        /\ \A id \in DOMAIN held \ {bucket_id, other} :
                               Cur(r).buckets[id] = held[id]
                        /\ r.track = track
                        /\ [r.frames EXCEPT ![Len(frames)].buckets = held] = frames

\* a bucket of 5 granules and a bucket of 3 have been merged into one of 8
C27_Witness ==
    /\ IsGuest /\ track.next_id = 2
    /\ DOMAIN Cur(World).buckets = {<<"Application", 1>>}
    /\ Cur(World).buckets[<<"Application", 1>>].resource_def_id = "D1"
    /\ Cur(World).buckets[<<"Application", 1>>].liquid_amount
           = 5 * Granularity(CoarseDivisibility) + 3 * Granularity(CoarseDivisibility)
    /\ \E bucket_id \in Ids, other \in Ids : handle_put_into_bucket(World, bucket_id, other).err = "BucketNotFound"

\* ---------------------------------------------------------------------
\* C28: put_component_state

\* a map without the keys of S
Without(f, S) == [x \in DOMAIN f \ S |-> f[x]]

\* the vaults and the lazy maps that the owned lazy maps ms of a frame have
\* taken in
DescendentVaults(f, ms) ==
    UNION {DOMAIN f.owned_lazy_maps[m].descendent_vaults : m \in ms}
DescendentLazyMaps(f, ms) ==
    UNION {DOMAIN f.owned_lazy_maps[m].descendent_lazy_maps : m \in ms}

\* the vault of the frame's owned objects that has the id: an owned vault, or
\* a vault one of the owned lazy maps ms has taken in
OwnedVault(f, ms, v) ==
    IF v \in DOMAIN f.owned_vaults THEN f.owned_vaults[v]
    ELSE f.owned_lazy_maps[CHOOSE m \in ms :
                               v \in DOMAIN f.owned_lazy_maps[m].descendent_vaults
                          ].descendent_vaults[v]

\* the entries of the lazy map of the frame's owned objects that has the id
OwnedEntries(f, ms, id) ==
    IF id \in ms THEN f.owned_lazy_maps[id].lazy_map
    ELSE f.owned_lazy_maps[CHOOSE m \in ms :
                               id \in DOMAIN f.owned_lazy_maps[m].descendent_lazy_maps
                          ].descendent_lazy_maps[id]

\* r is a successful put of value in the frame that runs a component: value
\* names every id the frame loaded, its other ids are owned by the frame, and
\* exactly these objects and their descendants have left the frame for the
\* store, under the component, whose state is value
Committed(r, value) ==
    LET f == Cur(World)
        address == f.component_address
        loaded == f.initial_loaded_object_refs
        new_vaults == Range(value.vault_ids) \ loaded.vault_ids
        new_lazy_maps == Range(value.lazy_map_ids) \ loaded.lazy_map_ids
        vaults == new_vaults \cup DescendentVaults(f, new_lazy_maps)
        lazy_maps == new_lazy_maps \cup DescendentLazyMaps(f, new_lazy_maps)
        old == track.substates
        new == r.track.substates
    IN /\ loaded.vault_ids \subseteq Range(value.vault_ids)
       /\ loaded.lazy_map_ids \subseteq Range(value.lazy_map_ids)
       /\ new_vaults \subseteq DOMAIN f.owned_vaults
       /\ new_lazy_maps \subseteq DOMAIN f.owned_lazy_maps
       /\ r.frames = [frames EXCEPT
              ![Len(frames)].owned_vaults = Without(@, new_vaults),
              ![Len(frames)].owned_lazy_maps = Without(@, new_lazy_maps)]
       /\ new.components = [old.components EXCEPT ![address] = value]
       /\ DOMAIN new.vaults = DOMAIN old.vaults \cup {<<address, v>> : v \in vaults}
       /\ \A k \in DOMAIN new.vaults :
              new.vaults[k] = IF k[1] = address /\ k[2] \in vaults
                              THEN OwnedVault(f, new_lazy_maps, k[2])
                              ELSE old.vaults[k]
       /\ DOMAIN new.lazy_maps =
              DOMAIN old.lazy_maps
              \cup UNION {{<<address, m, key>> :
                               key \in DOMAIN OwnedEntries(f, new_lazy_maps, m)} :
                              m \in lazy_maps}
       /\ \A k \in DOMAIN new.lazy_maps :
              new.lazy_maps[k] = IF k[1] = address /\ k[2] \in lazy_maps
                                 THEN OwnedEntries(f, new_lazy_maps, k[2])[k[3]]
                                 ELSE old.lazy_maps[k]
       /\ [r.track EXCEPT !.substates = old] = track

\* C28: put_component_state in a frame that runs a component succeeds only
\* if the new state names every vault id and lazy map id the frame loaded and
\* every other id it names is an object the frame owns; a success moves
\* exactly these objects, with the vaults and lazy maps they have taken in,
\* from the frame into the store under the component, sets the component's
\* state to the new state and changes nothing else; in a frame that runs a
\* blueprint function and in the root frame it fails IllegalSystemCall.
C28_PutComponentState ==
    pc = "running" =>
        \A value \in EntryValues :
            LET r == handle_put_component_state(World, value)
            IN IF Cur(World).wasm # "Component"
               THEN r.err = "IllegalSystemCall" /\ r.frames = frames /\ r.track = track
               ELSE r.err = "Ok" => Committed(r, value)

\* the account's frame has put a state that names the vault it loaded and a
\* vault and a lazy map it created
C28_Witness ==
    /\ IsGuest /\ Cur(World).wasm = "Component"
    /\ Cur(World).initial_loaded_object_refs.vault_ids = {PersistedVault}
    /\ Len(track.substates.components[AccountAddress].vault_ids) = 2
    /\ track.substates.components[AccountAddress].lazy_map_ids # <<>>
    /\ Cur(World).owned_vaults = EmptyMap

\* ---------------------------------------------------------------------
\* C29: re-entrancy

\* the frames of the stack that run the component
FramesOf(w, component_address) ==
    {i \in DOMAIN w.frames : /\ w.frames[i].wasm = "Component"
                             /\ w.frames[i].component_address = component_address}

\* C29: a call of a component's method, also of a component that has frames
\* on the stack already, runs in a new frame whose state is the state the
\* Track holds for the component at the call (the one the most recent
\* put_component_state wrote), whose initial object refs are the ids of that
\* state and which owns nothing; the call leaves every frame that was on the
\* stack and the Track as they were, and a put_component_state of the new
\* frame changes the Track and that frame only, so that a frame entered
\* earlier keeps the state and the refs it was entered with.
C29_Reentrancy ==
    pc = "running" =>
        /\ \A component_address \in DOMAIN track.substates.components :
               LET r == call(World, Invocation(<<"Component", component_address>>,
                                               "deposit", EmptyValue))
                   persisted == track.substates.components[component_address]
               IN r.err = "Ok" =>
                      /\ Len(r.frames) = Len(frames) + 1
                      /\ SubSeq(r.frames, 1, Len(frames)) = frames
                      /\ r.track = track
                      /\ Cur(r) = [Process_new(Len(frames)) EXCEPT
                                       !.wasm = "Component",
                                       !.component_address = component_address,
                                       !.state = persisted,
                                       !.initial_loaded_object_refs = RefsOf(persisted)]
        /\ \A value \in EntryValues :
               LET r == handle_put_component_state(World, value)
               IN r.err = "Ok" =>
                      /\ SubSeq(r.frames, 1, Len(frames) - 1)
                             = SubSeq(frames, 1, Len(frames) - 1)
                      /\ Cur(r).state = Cur(World).state
                      /\ Cur(r).initial_loaded_object_refs
                             = Cur(World).initial_loaded_object_refs

\* the account has put a state, called the component it created, and that
\* component has called the account: the account's two frames were entered
\* with different states
C29_Witness ==
    /\ pc = "running" /\ Len(frames) = 4
    /\ FramesOf(World, AccountAddress) = {2, 4}
    /\ FramesOf(World, NewComponentAddress) = {3}
    /\ frames[2].state # frames[4].state
    /\ frames[4].state = track.substates.components[AccountAddress]
    /\ frames[4].initial_loaded_object_refs # frames[2].initial_loaded_object_refs

\* ---------------------------------------------------------------------
\* C30: get_component_state

\* C30: in the root frame and in a frame that runs a blueprint function
\* get_component_state fails IllegalSystemCall; in a frame that runs a
\* component it returns the component's current state: the state the Track
\* holds, and after a put_component_state of the frame has succeeded, the
\* state that was put.
C30_GetAfterPut ==
    pc = "running" =>
        IF Cur(World).wasm # "Component"
        THEN handle_get_component_state(World).err = "IllegalSystemCall"
        ELSE /\ handle_get_component_state(World).err = "Ok"
             /\ \A value \in EntryValues :
                    LET put == handle_put_component_state(World, value)
                    IN put.err = "Ok" =>
                           /\ handle_get_component_state(WorldOf(put)).err = "Ok"
                           /\ handle_get_component_state(WorldOf(put)).state = value

\* ---------------------------------------------------------------------
\* C31: the order of the writes of a transaction

\* C31: the physical ids of the writes of a transaction all carry the hash
\* of the transaction, the id of the first write has the counter 0 and the
\* counter of every other write is one more than that of the write before
\* it, so the ids are in the order of the writes and no two writes have the
\* same id.  Stated for a transaction of fewer than 2^32 writes, which the
\* counter's type holds.
C31_WriteOrdering ==
    /\ id_gen.count = Len(writes)
    /\ \A i \in DOMAIN writes :
           /\ writes[i].phys_id[1] = id_gen.tx_hash
           /\ writes[i].phys_id[2] = i - 1
    /\ \A i, j \in DOMAIN writes :
           /\ i < j => writes[i].phys_id[2] < writes[j].phys_id[2]
           /\ writes[i].phys_id = writes[j].phys_id => i = j

\* a transaction has made its writes, the same address among them twice
C31_Witness ==
    /\ Len(writes) = MaxWrites
    /\ writes[1].address = writes[MaxWrites].address
    /\ id_gen.tx_hash = "h2"

\* ---------------------------------------------------------------------
\* C32: take of a count of non-fungibles

\* the n smallest of the ids
Smallest(ids, n) == {id \in ids : Cardinality({x \in ids : x < id}) < n}

\* C32: take_from_bucket of a count n on a bucket of non-fungibles that is
\* not locked removes the n smallest liquid ids and returns a bucket that
\* holds exactly these; when the bucket has fewer than n liquid ids the take
\* fails InsufficientBalance and removes nothing.
C32_TakeCount ==
    IsGuest =>
        \A bucket_id \in DOMAIN Cur(World).buckets, n \in TakeAmounts :
            LET c == Cur(World).buckets[bucket_id]
                r == handle_take_from_bucket(World, bucket_id, n)
            IN (resource_type(c) = "NonFungible" /\ ~is_locked(c)) =>
                   IF n <= Cardinality(c.liquid_ids)
                   THEN /\ r.err = "Ok"
                        /\ Cur(r).buckets[bucket_id].liquid_ids
                               = c.liquid_ids \ Smallest(c.liquid_ids, n)
                        /\ Cur(r).buckets[new_id(World).id].liquid_ids
                               = Smallest(c.liquid_ids, n)
                   ELSE /\ r.err = "InsufficientBalance"
                        /\ Cur(r).buckets[bucket_id] = c

\* ---------------------------------------------------------------------
\* C33: amounts are never negative

\* C33: the liquid amount of every fungible container of a transaction is at
\* least zero, and a take_from_bucket of any amount, a negative one
\* included, that succeeds leaves the bucket with no more than it had and
\* makes a bucket of an amount that is at least zero.
C33_NeverNegative ==
    /\ \A c \in FungibleContainers(World) : c.liquid_amount >= 0
    /\ IsGuest =>
           \A bucket_id \in DOMAIN Cur(World).buckets, amount \in Quantities :
               LET c == Cur(World).buckets[bucket_id]
                   r == handle_take_from_bucket(World, bucket_id, amount)
               IN (resource_type(c) = "Fungible" /\ r.err = "Ok") =>
                      /\ Cur(r).buckets[bucket_id].liquid_amount <= c.liquid_amount
                      /\ Cur(r).buckets[new_id(World).id].liquid_amount >= 0

\* ---------------------------------------------------------------------
\* C34: the restriction of a proof cannot be escaped

\* the containers of which the frame has a proof that is not restricted,
\* named or on its auth zone
UnrestrictedSources(f) ==
    {proof.source : proof \in {q \in HeldProofs(f) : ~q.restricted}}

\* the outcome r of an operation gives the current frame no unrestricted
\* proof of a container of which it had none
NothingUnrestricted(r) ==
    r.err = "Ok" => UnrestrictedSources(Cur(r)) \subseteq UnrestrictedSources(Cur(World))

\* C34: a clone of a restricted proof is restricted and leaves the proof
\* restricted; a restricted proof is not accepted by the auth zone, by a
\* call or by a return; and clone_proof, the two pushes onto the auth zone
\* and the pop from it give a frame no unrestricted proof of a container of
\* which it holds none: what a frame received as an argument stays
\* restricted for as long as the frame has it.
C34_RestrictionKept ==
    pc = "running" =>
        /\ \A id \in DOMAIN Cur(World).proofs :
               /\ NothingUnrestricted(clone_proof(World, id))
               /\ NothingUnrestricted(push_to_auth_zone(World, id))
               /\ NothingUnrestricted(auth_zone_invoke_push(World, id))
               /\ Cur(World).proofs[id].restricted =>
                      /\ LET r == clone_proof(World, id)
                         IN r.err = "Ok" =>
                                /\ Cur(r).proofs[new_id(World).id].restricted
                                /\ Cur(r).proofs[id].restricted
                      /\ push_to_auth_zone(World, id).err = "CantMoveRestrictedProof"
                      /\ auth_zone_invoke_push(World, id).err = "CantMoveRestrictedProof"
                      /\ \A actor \in Actors, function \in Functions :
                             call(World, Invocation(actor, function, ProofValue(id))).err
                                 = "CantMoveRestrictedProof"
                      /\ IsGuest =>
                             internal_call_return(World, ProofValue(id), <<id>>).err
                                 = "CantMoveRestrictedProof"
        /\ NothingUnrestricted(pop_from_auth_zone(World))

\* a frame holds the restricted proof it received and a clone of it
C34_Witness ==
    /\ IsGuest
    /\ Cardinality(DOMAIN Cur(World).proofs) = 2
    /\ \A id \in DOMAIN Cur(World).proofs : Cur(World).proofs[id].restricted
    /\ <<"Transaction", 1>> \in DOMAIN Cur(World).proofs

\* ---- C35 ----

\* the values persisted under component_address: its state and the entries
\* of its lazy maps
PersistedValues(w, component_address) ==
    {ValueAt(w, pl) : pl \in {pl \in Places(w) :
                                 \/ pl[1] = "state" /\ pl[2] = component_address
                                 \/ pl[1] = "entry" /\ pl[2][1] = component_address}}

\* the vaults and the lazy maps that the Track keeps under a component and
\* that no persisted value of the component names
OrphanedVaults(w) ==
    {k \in DOMAIN w.track.substates.vaults :
         \A value \in PersistedValues(w, k[1]) : k[2] \notin Range(value.vault_ids)}

OrphanedLazyMaps(w) ==
    {k \in DOMAIN w.track.substates.lazy_maps :
         \A value \in PersistedValues(w, k[1]) : k[2] \notin Range(value.lazy_map_ids)}

\* C35: every vault and every lazy map that the Track keeps under a
\* component is named by the persisted state of the component or by an entry
\* of one of its lazy maps, whatever calls, re-entrant ones included, and
\* whatever puts of the component state were made
C35_NoOrphans ==
    OrphanedVaults(World) = {} /\ OrphanedLazyMaps(World) = {}


\* ---- C36 ----

\* the vaults that the running frame of w can access
AccessibleVaults(w) == {v \in VaultIds : get_local_vault(w, v).err = "Ok"}

\* C36: a vault that the running frame can access stays accessible to it
\* after the frame has put a component state, and a second put of the same
\* state succeeds
C36_AccessMonotone ==
    IsGuest =>
        \A state \in EntryValues :
            LET r == handle_put_component_state(World, state)
            IN r.err = "Ok" =>
                   /\ AccessibleVaults(World) \subseteq AccessibleVaults(WorldOf(r))
                   /\ handle_put_component_state(WorldOf(r), state).err = "Ok"


\* ---- C37 ----

\* the resources of a worktop and of a map of buckets, per resource address
Holdings(containers) ==
    [r \in {containers[k].resource_def_id : k \in DOMAIN containers} |->
        SumOf(MapValues(containers), r)]

\* C37: call_method_with_all_resources of the root frame first drops every
\* named proof and every auth-zone proof, so that no bucket of the frame is
\* locked; then the resources of the worktop are in new buckets and the
\* worktop is empty; the call never fails CantMoveLockedBucket, and when it
\* succeeds the root frame holds no named bucket and no named proof
C37_AllResources ==
    (IsRoot /\ pc = "running") =>
        LET dropped == drop_all_proofs(World)
        IN /\ Cur(dropped).proofs = EmptyMap
           /\ Cur(dropped).auth_zone = <<>>
           /\ \A id \in DOMAIN Cur(dropped).buckets : ~is_locked(Cur(dropped).buckets[id])
           /\ \A order \in Iterations(DOMAIN Cur(World).worktop) :
                  LET moved == worktop_to_buckets(dropped, order)
                      new_buckets == [id \in DOMAIN Cur(moved).buckets
                                               \ DOMAIN Cur(World).buckets |->
                                         Cur(moved).buckets[id]]
                  IN /\ Cur(moved).worktop = EmptyMap
                     /\ DOMAIN Cur(World).buckets \subseteq DOMAIN Cur(moved).buckets
                     /\ Holdings(new_buckets) = Holdings(Cur(World).worktop)
                     /\ \A function \in Functions :
                        \A to_deposit \in Iterations(DOMAIN Cur(moved).buckets) :
                            LET r == call_method_with_all_resources(
                                         World, AccountAddress, function, order, to_deposit)
                            IN /\ r.err # "CantMoveLockedBucket"
                               /\ r.err = "Ok" =>
                                      /\ r.frames[1].buckets = EmptyMap
                                      /\ r.frames[1].proofs = EmptyMap
                                      /\ DOMAIN Cur(r).buckets = DOMAIN Cur(moved).buckets

\* the root frame holds a locked bucket, a named proof, an auth-zone proof
\* and a worktop resource, and the call with all resources succeeds
C37_Witness ==
    /\ IsRoot /\ pc = "running"
    /\ \E id \in DOMAIN Cur(World).buckets : is_locked(Cur(World).buckets[id])
    /\ Cur(World).proofs # EmptyMap
    /\ Cur(World).auth_zone # <<>>
    /\ Cur(World).worktop # EmptyMap
    /\ \E order \in Iterations(DOMAIN Cur(World).worktop) :
       \E to_deposit \in Iterations(DOMAIN Cur(worktop_to_buckets(
                                        drop_all_proofs(World), order)).buckets) :
           call_method_with_all_resources(World, AccountAddress, "deposit",
                                          order, to_deposit).err = "Ok"


\* ---- C38 ----

\* C38: take_non_fungibles(ids) either fails and leaves the liquid ids of the
\* container as they were (NonFungibleOperationNotAllowed on a fungible
\* container, InsufficientBalance when an id is not liquid), or succeeds,
\* removes exactly ids and returns a container that holds exactly ids
C38_AllOrNothing ==
    \A c \in Containers(World) : \A ids \in SUBSET NonFungibleIds :
        LET res == container_take_non_fungibles(c, ids)
        IN /\ resource_type(c) = "Fungible" =>
                  res.err = "NonFungibleOperationNotAllowed" /\ res.self = c
           /\ resource_type(c) = "NonFungible" =>
                  /\ res.err = (IF ids \subseteq c.liquid_ids THEN "Ok"
                                ELSE "InsufficientBalance")
                  /\ res.err # "Ok" => res.self.liquid_ids = c.liquid_ids
                  /\ res.err = "Ok" => /\ res.self.liquid_ids = c.liquid_ids \ ids
                                       /\ res.taken.liquid_ids = ids
                                       /\ res.taken.resource_def_id = c.resource_def_id


\* ---- C39 ----

\* what C39 asks of the result r of an operation of actor on the vault self
Guarded(self, actor, r) ==
    /\ ~Actor_check(actor, self.authority) =>
           r.err = "UnauthorizedAccess" /\ r.vault = self /\ r.out = NoOutput
    /\ (r.err = "Ok" \/ r.vault # self) => Actor_check(actor, self.authority)
    /\ r.vault.authority = self.authority

\* C39: every operation on a vault by an actor that does not satisfy the
\* vault's authority fails UnauthorizedAccess, returns nothing and leaves the
\* vault as it was; an operation that succeeds or changes the vault was asked
\* by an actor that satisfies the authority; no operation changes the
\* authority of the vault
C39_VaultAuthority ==
    \A actor \in VaultActors :
        /\ \A other \in VaultBuckets : Guarded(vault, actor, Vault_put(vault, other, actor))
        /\ \A amount \in 0..MaxVaultAmount :
               Guarded(vault, actor, Vault_take(vault, amount, actor))
        /\ \A key \in NonFungibleKeys :
               Guarded(vault, actor, Vault_take_non_fungible(vault, key, actor))
        /\ Guarded(vault, actor, Vault_get_non_fungible_ids(vault, actor))
        /\ Guarded(vault, actor, Vault_total_supply(vault, actor))
        /\ Guarded(vault, actor, Vault_amount(vault, actor))
        /\ Guarded(vault, actor, Vault_resource_address(vault, actor))

\* an actor without the authority was refused a take from a vault that holds
\* what it asked for, and an actor with the authority can take it
C39_Witness ==
    /\ op = "take" /\ err = "UnauthorizedAccess"
    /\ vault.bucket.amount = MaxVaultAmount
    /\ Vault_take(vault, 1, [authorities |-> Authorities \ {vault.authority}]).err
           = "UnauthorizedAccess"
    /\ Vault_take(vault, 1, [authorities |-> {vault.authority}]).err = "Ok"


\* ---- C40 ----

\* the length prefix at ptr, when the memory holds all of its bytes
PrefixAt(memory, ptr) == from_le_bytes(SubSeq(memory, ptr + 1, ptr + WordBytes))

\* the read at ptr would leave the words or the memory
OutOfRange(memory, ptr) ==
    \/ ptr + WordBytes > WordMax
    \/ ptr + WordBytes > Len(memory)
    \/ ptr + WordBytes + PrefixAt(memory, ptr) > WordMax
    \/ ptr + WordBytes + PrefixAt(memory, ptr) > Len(memory)

\* what C40 asks of read_return_value for every pointer into memory
ReadsAsClaimed(memory) ==
    \A ptr \in 0..WordMax :
        LET r == read_return_value(memory, ptr)
            len == PrefixAt(memory, ptr)
        IN /\ r.err # "panic"
           /\ r.end <= Len(memory)
           /\ OutOfRange(memory, ptr) => r.err = "MemoryAccessError"
           /\ ~OutOfRange(memory, ptr) =>
                  /\ r.err \in {"Ok", "ParseScryptoValueError"}
                  /\ r.start = ptr + WordBytes /\ r.end = ptr + WordBytes + len
                  /\ r.err = "Ok" =>
                         r.raw = [i \in 1..len |-> memory[ptr + WordBytes + i]]
                  /\ len = 0 => r.err = "ParseScryptoValueError"

\* C40: read_return_value(ptr) fails MemoryAccessError when ptr + 4 or
\* ptr + 4 + len is not a word or exceeds the length of the memory, len being
\* the length prefix at ptr; otherwise it decodes exactly the bytes at
\* ptr + 4 .. ptr + 4 + len - 1, and when len is 0 it fails with a parse
\* error; it never panics and never takes bytes from outside the memory
C40_ReadReturnValue == ReadsAsClaimed(vm.memory)

====
